---- MODULE Spec2Model ----
(***************************************************************************)
(* Model of the similarity check of gh-mmc: the text normaliser and the    *)
(* Jaccard scorer of package similarity, the matrix construction of        *)
(* CompareAssignments, and the report builder of the check command.        *)
(*                                                                         *)
(* A string is a sequence of one-character strings, so that the byte-level *)
(* operations of package strings (TrimSpace, HasPrefix, Index, Fields) are  *)
(* computed as the code computes them.                                     *)
(*                                                                         *)
(* A similarity (a float64 percentage) is the exact fraction <<n, d>> in    *)
(* lowest terms.  For set sizes up to 14 and whole-number thresholds the    *)
(* float64 value (float64(i)/float64(u))*100.0 orders and compares exactly  *)
(* as the fraction 100*i/u does, so the fraction stands for the float.     *)
(***************************************************************************)
EXTENDS Integers, Sequences, FiniteSets, TLC

VARIABLES
    files,      \* the files on disk: path -> [readable, lines]
    nRaw,       \* normaliser: the raw lines handed to normalizeLines
    nOnce,      \* normaliser: normalizeLines(nRaw)
    nTwice,     \* normaliser: normalizeLines(nOnce)
    npc,        \* normaliser: "raw", "once" or "twice"
    sArgs,      \* scorer: the (file1, file2) of the last CalculateSimilarity call
    sResult,    \* scorer: what that call returned, [sim, err]
    rootReadable,   \* whether the classroom directory can be read
    rootEntries,    \* the entries of the classroom directory, [name, isDir]
    tree,           \* student -> assignment folder -> names of the files in it
    dirMode,        \* student -> permission bits of the 20-assignments directory
    orderBy,        \* the --order-by flag
    pc,             \* where the run of the check command is
    studentFolders, \* CompareAssignments: the student folders, in ReadDir order
    result,         \* CompareAssignments: the ComparisonResult being built
    pos,            \* CompareAssignments: index of the next (assignment, i, j)
    scoreLog,       \* the CalculateSimilarity calls made so far, in order
    fatal,          \* the message of mmc.Fatal, "" while the run is alive
    sumArgs,        \* printOverallSummary: [threshold, filterStudent, filterAssignment]
    pairs,          \* printOverallSummary: the []StudentPair it returned
    dpc,            \* diff mode: "summary", "awaiting", "exiting" or "done"
    dInput,         \* diff mode: what the last ReadString returned, [eof, line]
    dReads,         \* diff mode: the number of lines read from stdin so far
    dOut,           \* diff mode: what the last step printed and ran, in order
    diffBinary,     \* diff mode: whether exec finds the diff command
    scanArgs,       \* scanner: the arguments of the last FindFilesWithExtension call
    scanned         \* scanner: the files that call returned

textVars == <<nRaw, nOnce, nTwice, npc, sArgs, sResult, scanArgs, scanned>>
diskVars == <<rootReadable, rootEntries, tree, dirMode, files>>
runVars == <<orderBy, pc, studentFolders, result, pos, scoreLog, fatal, sumArgs, pairs>>
diffVars == <<dpc, dInput, dReads, dOut, diffBinary>>
vars == <<files, nRaw, nOnce, nTwice, npc, sArgs, sResult, rootReadable, rootEntries,
          tree, dirMode, orderBy, pc, studentFolders, result, pos, scoreLog, fatal, sumArgs,
          pairs, dpc, dInput, dReads, dOut, diffBinary, scanArgs, scanned>>

(***************************************************************************)
(* Bounds                                                                  *)
(***************************************************************************)
MaxTokens == 4      \* tokens in the text handed to the normaliser
MaxFileLines == 3   \* raw lines in a file handed to the scorer
MaxCommands == 2    \* lines on stdin before its end, in diff mode

(***************************************************************************)
(* Package strings                                                         *)
(***************************************************************************)
SlashSlash == <<"/", "/">>
SlashStar == <<"/", "*">>
StarSlash == <<"*", "/">>
Star == <<"*">>
Hash == <<"#">>
HtmlOpen == <<"<", "!", "-", "-">>

IsSpace(c) == c \in {" ", "\t", "\n", "\r"}

RECURSIVE TrimLeft(_)
TrimLeft(s) ==
    IF s # <<>> /\ IsSpace(Head(s)) THEN TrimLeft(Tail(s)) ELSE s

RECURSIVE TrimRight(_)
TrimRight(s) ==
    IF s # <<>> /\ IsSpace(s[Len(s)]) THEN TrimRight(SubSeq(s, 1, Len(s) - 1)) ELSE s

TrimSpace(s) == TrimRight(TrimLeft(s))

HasPrefix(s, p) == Len(s) >= Len(p) /\ SubSeq(s, 1, Len(p)) = p

HasSuffix(s, p) == Len(s) >= Len(p) /\ SubSeq(s, Len(s) - Len(p) + 1, Len(s)) = p


\* strings.Index: the 0-based position of the first p in s, or -1.
Index(s, p) ==
    LET at == {i \in 1..(Len(s) - Len(p) + 1) : SubSeq(s, i, i + Len(p) - 1) = p}
    IN IF at = {} THEN -1 ELSE (CHOOSE i \in at : \A j \in at : i <= j) - 1

\* s[from:] and s[:to] with Go's 0-based, half-open indices.
SliceFrom(s, from) == SubSeq(s, from + 1, Len(s))
SliceTo(s, to) == SubSeq(s, 1, to)

\* strings.Fields: the maximal runs of non-space characters, in order.
RECURSIVE Fields(_)
Fields(s) ==
    LET t == TrimLeft(s)
        ends == {i \in 1..Len(t) : IsSpace(t[i])}
        stop == IF ends = {} THEN Len(t) + 1 ELSE CHOOSE i \in ends : \A j \in ends : i <= j
    IN IF t = <<>> THEN <<>>
       ELSE <<SubSeq(t, 1, stop - 1)>> \o Fields(SubSeq(t, stop, Len(t)))

\* strings.Join(words, " ")
RECURSIVE JoinSpace(_)
JoinSpace(words) ==
    IF words = <<>> THEN <<>>
    ELSE IF Len(words) = 1 THEN words[1]
    ELSE words[1] \o <<" ">> \o JoinSpace(Tail(words))

Range(s) == {s[i] : i \in 1..Len(s)}

RECURSIVE Flatten(_)
Flatten(ss) == IF ss = <<>> THEN <<>> ELSE Head(ss) \o Flatten(Tail(ss))

SeqsUpTo(S, n) == UNION {[1..k -> S] : k \in 0..n}

(***************************************************************************)
(* Text normaliser                                                         *)
(***************************************************************************)
\* normalizeLine is modelled step by step; each step hands the line it has
\* produced to the next one.  After a step that cut the line the code trims
\* it and returns "" if nothing is left.

\* normalizeLine without its last step.
CollapseSpaces_Skipped(line) == line

\* The last step: strings.Join(strings.Fields(line), " ").
CollapseSpaces(line) == JoinSpace(Fields(line))

TrimThenCollapse(line) ==
    IF TrimSpace(line) = <<>> THEN <<>> ELSE CollapseSpaces(TrimSpace(line))

\* Python/Shell inline comments: # ...
StripHash(line) ==
    IF Index(line, Hash) # -1
    THEN TrimThenCollapse(SliceTo(line, Index(line, Hash)))
    ELSE CollapseSpaces(line)

TrimThenStripHash(line) ==
    IF TrimSpace(line) = <<>> THEN <<>> ELSE StripHash(TrimSpace(line))

\* The text left when the comment that starts at idx is taken out of line.
CutBlock(line, idx, endIdx) ==
    IF endIdx # -1
    THEN SliceTo(line, idx) \o SliceFrom(line, idx + endIdx + 2)
    ELSE SliceTo(line, idx)

\* CSS/JS block comment start: /* ...
StripBlock(line) ==
    IF Index(line, SlashStar) # -1
    THEN TrimThenStripHash(CutBlock(line, Index(line, SlashStar),
                                    Index(SliceFrom(line, Index(line, SlashStar)),
                                          StarSlash)))
    ELSE StripHash(line)

TrimThenStripBlock(line) ==
    IF TrimSpace(line) = <<>> THEN <<>> ELSE StripBlock(TrimSpace(line))

\* CSS/JS single-line comments: // ...
StripSlashSlash(line) ==
    IF Index(line, SlashSlash) # -1
    THEN TrimThenStripBlock(SliceTo(line, Index(line, SlashSlash)))
    ELSE StripBlock(line)

\* The full-line comment markers.
DropFullLineComment(line) ==
    IF \/ HasPrefix(line, HtmlOpen)
       \/ HasPrefix(line, SlashSlash)
       \/ HasPrefix(line, SlashStar) \/ HasPrefix(line, Star)
       \/ HasPrefix(line, Hash)
    THEN <<>>
    ELSE StripSlashSlash(line)

normalizeLine(raw) ==
    IF TrimSpace(raw) = <<>> THEN <<>> ELSE DropFullLineComment(TrimSpace(raw))

\* The slice normalizeLines appends norm to.
AppendNonEmpty(norm) == IF norm # <<>> THEN <<norm>> ELSE <<>>

RECURSIVE normalizeLines(_)
normalizeLines(lines) ==
    IF lines = <<>> THEN <<>>
    ELSE AppendNonEmpty(normalizeLine(Head(lines))) \o normalizeLines(Tail(lines))

(***************************************************************************)
(* Similarity scorer                                                       *)
(***************************************************************************)
RECURSIVE GCD(_, _)
GCD(a, b) == IF b = 0 THEN a ELSE GCD(b, a % b)

\* The percentage n/d as a fraction in lowest terms.
Pct(n, d) == LET g == GCD(n, d) IN <<n \div g, d \div g>>

Zero == Pct(0, 1)
Hundred == Pct(100, 1)

PctGE(a, b) == a[1] * b[2] >= b[1] * a[2]
PctGT(a, b) == a[1] * b[2] > b[1] * a[2]

\* jaccardSimilarity with the union taken over the lines of the second file
\* instead of its set of lines.
jaccardSimilarity_DupUnion(lines1, lines2) ==
    LET set1 == Range(lines1)
        set2 == Range(lines2)
        intersection == Cardinality({line \in set1 : line \in set2})
        union == Cardinality(set1) + Len(lines2) - intersection
    IN IF union = 0 THEN Zero ELSE Pct(intersection * 100, union)

\* jaccardSimilarity counting every line, duplicates included.
jaccardSimilarity_NoDedup(lines1, lines2) ==
    LET set2 == Range(lines2)
        intersection == Cardinality({i \in 1..Len(lines1) : lines1[i] \in set2})
        union == Len(lines1) + Len(lines2) - intersection
    IN IF union = 0 THEN Zero ELSE Pct(intersection * 100, union)

jaccardSimilarity(lines1, lines2) ==
    LET set1 == Range(lines1)
        set2 == Range(lines2)
        intersection == Cardinality({line \in set1 : line \in set2})
        union == Cardinality(set1) + Cardinality(set2) - intersection
    IN IF union = 0 THEN Zero ELSE Pct(intersection * 100, union)

\* bufio.Scanner over the text of a file: the lines between newlines, without
\* a final empty line.
RECURSIVE ScanLines(_)
ScanLines(text) ==
    LET nl == Index(text, <<"\n">>)
    IN IF text = <<>> THEN <<>>
       ELSE IF nl = -1 THEN <<text>>
       ELSE <<SliceTo(text, nl)>> \o ScanLines(SliceFrom(text, nl + 1))

readFile(filePath) ==
    IF filePath \in DOMAIN files /\ files[filePath].readable
    THEN [lines |-> files[filePath].lines, err |-> FALSE]
    ELSE [lines |-> <<>>, err |-> TRUE]

\* The part of CalculateSimilarity that follows the normalisation.
ScoreContents(content1, content2) ==
    IF Len(content1) = 0 /\ Len(content2) = 0 THEN [sim |-> Hundred, err |-> FALSE]
    ELSE IF Len(content1) = 0 \/ Len(content2) = 0 THEN [sim |-> Zero, err |-> FALSE]
    ELSE [sim |-> jaccardSimilarity(content1, content2), err |-> FALSE]

\* CalculateSimilarity with the empty-file policy applied to the raw lines.
CalculateSimilarity_RawEmpty(file1, file2) ==
    IF readFile(file1).err \/ readFile(file2).err THEN [sim |-> Zero, err |-> TRUE]
    ELSE IF Len(readFile(file1).lines) = 0 /\ Len(readFile(file2).lines) = 0
    THEN [sim |-> Hundred, err |-> FALSE]
    ELSE IF Len(readFile(file1).lines) = 0 \/ Len(readFile(file2).lines) = 0
    THEN [sim |-> Zero, err |-> FALSE]
    ELSE [sim |-> jaccardSimilarity(normalizeLines(readFile(file1).lines),
                                    normalizeLines(readFile(file2).lines)),
          err |-> FALSE]

CalculateSimilarity(file1, file2) ==
    IF readFile(file1).err THEN [sim |-> Zero, err |-> TRUE]
    ELSE IF readFile(file2).err THEN [sim |-> Zero, err |-> TRUE]
    ELSE ScoreContents(normalizeLines(readFile(file1).lines),
                       normalizeLines(readFile(file2).lines))

(***************************************************************************)
(* Corpus scanner                                                          *)
(***************************************************************************)
\* The names of directory entries are atomic strings; StringOrder lists them
\* in byte order, the order of os.ReadDir and of sort.Strings.
StringOrder ==
    <<".git", ".vscode", "A1", "A2", "README.md", "alice", "bob", "carol", "starter">>

StringRank(name) == CHOOSE i \in 1..Len(StringOrder) : StringOrder[i] = name

RECURSIVE SortStrings(_)
SortStrings(S) ==
    IF S = {} THEN <<>>
    ELSE LET m == CHOOSE x \in S : \A y \in S : StringRank(x) <= StringRank(y)
         IN <<m>> \o SortStrings(S \ {m})

\* strings.HasPrefix(name, ".") on the names of StringOrder.
HasDotPrefix(name) == name \in {".git", ".vscode"}

\* A file name is the sequence of its parts, <<"index", ".html">>, so that
\* HasSuffix and TrimSuffix apply to it; FileOrder is the lexical order of
\* filepath.Walk.
EmptyHtml == <<"empty", ".html">>
IndexHtml == <<"index", ".html">>
NotesTxt == <<"notes", ".txt">>
PageHtml == <<"page", ".html">>
ResetHtml == <<"reset", ".html">>
FileOrder ==
    <<EmptyHtml, IndexHtml, NotesTxt, PageHtml, ResetHtml, <<"reset", ".js">>,
      <<"reset", ".min", ".js">>, <<"site", ".min", ".js">>>>

FileRank(name) == CHOOSE i \in 1..Len(FileOrder) : FileOrder[i] = name

RECURSIVE SortFiles(_)
SortFiles(S) ==
    IF S = {} THEN <<>>
    ELSE LET m == CHOOSE x \in S : \A y \in S : FileRank(x) <= FileRank(y)
         IN <<m>> \o SortFiles(S \ {m})

\* FindStudentFolders without the test for the starter folder.
FindStudentFolders_KeepStarter(starterFolderPrefix) ==
    LET Keep(name) ==
            /\ \E e \in rootEntries : e.name = name /\ e.isDir
            /\ ~HasDotPrefix(name)
    IN IF ~rootReadable THEN [folders |-> <<>>, err |-> TRUE]
       ELSE [folders |-> SelectSeq(SortStrings({e.name : e \in rootEntries}), Keep),
             err |-> FALSE]

FindStudentFolders(starterFolderPrefix) ==
    LET Keep(name) ==
            /\ \E e \in rootEntries : e.name = name /\ e.isDir
            /\ ~HasDotPrefix(name)
            /\ name # starterFolderPrefix
    IN IF ~rootReadable THEN [folders |-> <<>>, err |-> TRUE]
       ELSE [folders |-> SelectSeq(SortStrings({e.name : e \in rootEntries}), Keep),
             err |-> FALSE]

\* os.ReadDir of <student>/20-assignments needs the read bit of the directory:
\* without it FindAssignments returns the error.
FindAssignments(student) ==
    LET Keep(name) == ~HasDotPrefix(name)
    IN IF dirMode[student] # "r-x"
       THEN [assignments |-> <<>>, err |-> TRUE]
       ELSE [assignments |-> SelectSeq(SortStrings(DOMAIN tree[student]), Keep),
             err |-> FALSE]

\* os.Stat of <student>/20-assignments/<assignment> does not report IsNotExist:
\* the folder is there and 20-assignments can be searched, or the search bit
\* is missing and os.Stat fails with a permission error, which is not
\* IsNotExist.
DirExists(student, assignment) ==
    /\ student \in DOMAIN tree
    /\ dirMode[student] = "---" \/ assignment \in DOMAIN tree[student]

RECURSIVE FirstExtension(_, _)
FirstExtension(name, extensions) ==
    IF extensions = <<>> THEN <<>>
    ELSE IF HasSuffix(name, Head(extensions)) THEN <<Head(extensions)>>
    ELSE FirstExtension(name, Tail(extensions))

FindFilesWithExtension(dirPath, extensions, ignoreFiles) ==
    LET names == SortFiles(tree[dirPath[1]][dirPath[2]])
        Keep(name) ==
            LET ext == FirstExtension(name, extensions)
            IN /\ files[Append(dirPath, name)].size # 0
               /\ ext # <<>>
               /\ SubSeq(name, 1, Len(name) - Len(ext[1])) \notin ignoreFiles
        kept == SelectSeq(names, Keep)
    IN [k \in 1..Len(kept) |-> Append(dirPath, kept[k])]

(***************************************************************************)
(* Comparison engine                                                       *)
(***************************************************************************)
Extensions == <<<<".html">>>>
IgnoreFiles == {<<"reset">>}
StarterFolder == "starter"

Put(map, key, value) ==
    [k \in DOMAIN map \cup {key} |-> IF k = key THEN value ELSE map[k]]

\* The (i, j) of the two student loops, i < j, in loop order.
PairsBefore(i, j, n) ==
    Cardinality({p \in (1..n) \X (1..n) :
                    p[1] < p[2] /\ (p[1] < i \/ (p[1] = i /\ p[2] < j))})

NumPairs(n) == (n * (n - 1)) \div 2

PairAt(k, n) ==
    CHOOSE p \in (1..n) \X (1..n) : p[1] < p[2] /\ PairsBefore(p[1], p[2], n) = k - 1

NumTriples == Len(result.Assignments) * NumPairs(Len(studentFolders))

\* The (assignment, student1, student2) of iteration k of the nested loops.
TripleAt(k) ==
    LET np == NumPairs(Len(studentFolders))
        p == PairAt(((k - 1) % np) + 1, Len(studentFolders))
    IN [assignment |-> result.Assignments[((k - 1) \div np) + 1],
        student1 |-> studentFolders[p[1]],
        student2 |-> studentFolders[p[2]]]

\* The (file1, file2) handed to CalculateSimilarity, in the order of the loops.
FilePairs(files1, files2) ==
    [k \in 1..(Len(files1) * Len(files2)) |->
        <<files1[((k - 1) \div Len(files2)) + 1], files2[((k - 1) % Len(files2)) + 1]>>]

\* What the loop body appends to comparisons for one file pair.
ScoredPair(filePair, r) ==
    IF r.err THEN <<>>
    ELSE <<[File1 |-> filePair[1], File2 |-> filePair[2], Similarity |-> r.sim]>>

\* Comparisons giving up the remaining file pairs at the first read failure.
RECURSIVE Comparisons_AbortOnError(_)
Comparisons_AbortOnError(filePairs) ==
    IF filePairs = <<>> THEN <<>>
    ELSE IF CalculateSimilarity(Head(filePairs)[1], Head(filePairs)[2]).err THEN <<>>
    ELSE ScoredPair(Head(filePairs), CalculateSimilarity(Head(filePairs)[1], Head(filePairs)[2]))
         \o Comparisons_AbortOnError(Tail(filePairs))

RECURSIVE Comparisons(_)
Comparisons(filePairs) ==
    IF filePairs = <<>> THEN <<>>
    ELSE ScoredPair(Head(filePairs), CalculateSimilarity(Head(filePairs)[1], Head(filePairs)[2]))
         \o Comparisons(Tail(filePairs))

RECURSIVE MaxSim(_, _)
MaxSim(comparisons, maxSim) ==
    IF comparisons = <<>> THEN maxSim
    ELSE MaxSim(Tail(comparisons),
                IF PctGT(Head(comparisons).Similarity, maxSim)
                THEN Head(comparisons).Similarity ELSE maxSim)

\* The less function of the sort, turned round.
BySimilarity_Ascending(c1, c2) == PctGT(c2.Similarity, c1.Similarity)

BySimilarity(c1, c2) == PctGT(c1.Similarity, c2.Similarity)

\* The orders of 1..n in which position a comes before position b only if
\* inOrder[a][b]: what an unstable sort may leave.
SortedOrders(n, inOrder) ==
    {q \in Permutations(1..n) : \A a, b \in 1..n : a < b => inOrder[q[a]][q[b]]}

\* What sort.Slice may leave of comparisons: every order in which no later
\* element has a greater Similarity than an earlier one (the sort is not
\* stable, so the order among ties is any).
SortComparisons(comparisons) ==
    { [k \in 1..Len(comparisons) |-> comparisons[q[k]]] :
        q \in SortedOrders(Len(comparisons),
                           [a \in 1..Len(comparisons) |->
                              [b \in 1..Len(comparisons) |->
                                 ~BySimilarity(comparisons[b], comparisons[a])]]) }

\* The reversed comparisons, with File1 kept in place.
Reversed_NoSwap(comparisons) == comparisons

Reversed(comparisons) ==
    [k \in 1..Len(comparisons) |->
        [File1 |-> comparisons[k].File2,
         File2 |-> comparisons[k].File1,
         Similarity |-> comparisons[k].Similarity]]

\* The results structure without the test student != otherStudent.
EmptyResults_WithSelf(folders) ==
    [student \in Range(folders) |-> [otherStudent \in Range(folders) |-> <<>>]]

EmptyResults(folders) ==
    [student \in Range(folders) |->
        [otherStudent \in Range(folders) \ {student} |-> <<>>]]

AllAssignments(folders) ==
    SortStrings(UNION {Range(FindAssignments(student).assignments) :
                         student \in {f \in Range(folders) : ~FindAssignments(f).err}})

(***************************************************************************)
(* Report builder                                                          *)
(***************************************************************************)
orderByAssignment == "assignment"
orderByStudent == "student"

\* similarity >= threshold, with the comparison turned round.
AtLeast_Inverted(similarity, threshold) == PctGE(threshold, similarity)

\* similarity >= threshold, as a strict comparison.
AtLeast_Strict(similarity, threshold) == PctGT(similarity, threshold)

AtLeast(similarity, threshold) == PctGE(similarity, threshold)

\* The student filter, looking at Student1 only.
MatchesStudent_FirstOnly(pair, filterStudent) ==
    filterStudent = "" \/ pair.Student1 = filterStudent

MatchesStudent(pair, filterStudent) ==
    \/ filterStudent = ""
    \/ pair.Student1 = filterStudent
    \/ pair.Student2 = filterStudent

\* The loop over result.Assignments of printOverallSummary for one student
\* pair, from assignment k on.
RECURSIVE FlagAssignments(_, _, _, _, _)
FlagAssignments(pair, k, res, threshold, filterAssignment) ==
    IF k > Len(res.Assignments) THEN pair
    ELSE LET assignment == res.Assignments[k]
             cells == res.Results[pair.Student1][pair.Student2]
             exists == assignment \in DOMAIN cells
             comp == cells[assignment]
             AboveThreshold(fc) == AtLeast(fc.Similarity, threshold)
             fileComps == SelectSeq(comp.FileComparisons, AboveThreshold)
             flagged ==
                 [pair EXCEPT
                    !.FlaggedAssignments =
                        Append(@, [Name |-> assignment,
                                   MaxSimilarity |-> comp.MaxSimilarity,
                                   FileComparisons |-> fileComps]),
                    !.MaxSimilarity =
                        IF PctGT(comp.MaxSimilarity, @) THEN comp.MaxSimilarity ELSE @]
         IN IF filterAssignment # "" /\ assignment # filterAssignment
            THEN FlagAssignments(pair, k + 1, res, threshold, filterAssignment)
            ELSE IF exists /\ AtLeast(comp.MaxSimilarity, threshold) /\ Len(fileComps) > 0
            THEN FlagAssignments(flagged, k + 1, res, threshold, filterAssignment)
            ELSE FlagAssignments(pair, k + 1, res, threshold, filterAssignment)

NewPair(student1, student2) ==
    [Student1 |-> student1, Student2 |-> student2,
     FlaggedAssignments |-> <<>>, MaxSimilarity |-> Zero]

\* The values of pairMap when the loops of printOverallSummary are done.
PairMap(students, res, threshold, filterStudent, filterAssignment) ==
    LET built ==
            { FlagAssignments(NewPair(students[i], students[j]), 1, res, threshold,
                              filterAssignment) :
                <<i, j>> \in {p \in (1..Len(students)) \X (1..Len(students)) : p[1] < p[2]} }
    IN { pair \in built :
           /\ Len(pair.FlaggedAssignments) > 0
           /\ MatchesStudent(pair, filterStudent) }

\* The less function of the sort with the two keys in the other order.
ByFlaggedThenMax_MaxFirst(p, q) ==
    IF p.MaxSimilarity # q.MaxSimilarity
    THEN PctGT(p.MaxSimilarity, q.MaxSimilarity)
    ELSE Len(p.FlaggedAssignments) > Len(q.FlaggedAssignments)

ByFlaggedThenMax(p, q) ==
    IF Len(p.FlaggedAssignments) # Len(q.FlaggedAssignments)
    THEN Len(p.FlaggedAssignments) > Len(q.FlaggedAssignments)
    ELSE PctGT(p.MaxSimilarity, q.MaxSimilarity)

\* What sort.Slice may leave of the pairs collected from pairMap.
SortPairs(collected) ==
    { [k \in 1..Len(collected) |-> collected[q[k]]] :
        q \in SortedOrders(Len(collected),
                           [a \in 1..Len(collected) |->
                              [b \in 1..Len(collected) |->
                                 ~ByFlaggedThenMax(collected[b], collected[a])]]) }

\* The slices printOverallSummary may return: the pairs of pairMap, collected
\* in the order of a map iteration and sorted by sort.Slice.
printOverallSummary(students, res, threshold, filterStudent, filterAssignment) ==
    LET pairMap == PairMap(students, res, threshold, filterStudent, filterAssignment)
        n == Cardinality(pairMap)
        collected == {s \in [1..n -> pairMap] : \A a, b \in 1..n : a # b => s[a] # s[b]}
    IN IF n = 0 THEN {<<>>}
       ELSE UNION {SortPairs(s) : s \in collected}

(***************************************************************************)
(* Listings and diff mode                                                  *)
(***************************************************************************)
\* What the program prints and runs is a sequence of events: a printed line
\* (kind "message", "assignment", "case", "detail", "file", "header") or a run
\* of the diff command (kind "diff").  caseNum and assignmentNum are the
\* numbers of the case reference the line shows or stands under.
Event(kind, caseNum, assignmentNum, name, file1, file2, similarity) ==
    [kind |-> kind, caseNum |-> caseNum, assignmentNum |-> assignmentNum, name |-> name,
     File1 |-> file1, File2 |-> file2, Similarity |-> similarity]

Message(text) == Event("message", 0, 0, text, <<>>, <<>>, Zero)

\* filepath.Base of a path <<student, assignment, file name>>.
Base(path) == path[Len(path)]

\* The lines printed for the file comparisons of a detail.
FileLines(detail, caseNum, assignmentNum) ==
    [k \in 1..Len(detail.FileComparisons) |->
        Event("file", caseNum, assignmentNum, detail.Name,
              Base(detail.FileComparisons[k].File1), Base(detail.FileComparisons[k].File2),
              detail.FileComparisons[k].Similarity)]

DetailLines(detail, caseNum, assignmentNum) ==
    <<Event("detail", caseNum, assignmentNum, detail.Name, <<>>, <<>>, detail.MaxSimilarity)>>
    \o FileLines(detail, caseNum, assignmentNum)

PairLines(p, caseNum) ==
    <<Event("case", caseNum, 0, "", <<p.Student1>>, <<p.Student2>>, Zero)>>
    \o Flatten([j \in 1..Len(p.FlaggedAssignments) |->
                   DetailLines(p.FlaggedAssignments[j], caseNum, j)])

printPairListByStudent(ps) ==
    Flatten([i \in 1..Len(ps) |-> PairLines(ps[i], i)])

\* The AssignmentCase values in the order the two loops collect them.
AllCases(ps) ==
    Flatten([i \in 1..Len(ps) |->
                [j \in 1..Len(ps[i].FlaggedAssignments) |->
                    [CaseNum |-> i, AssignmentNumInCase |-> j, Pair |-> ps[i],
                     Detail |-> ps[i].FlaggedAssignments[j]]]])

\* assignmentMap[assignment] with every case replacing the cases before it.
CasesOf_LastOnly(ps, assignment) ==
    LET Named(ac) == ac.Detail.Name = assignment
        cases == SelectSeq(AllCases(ps), Named)
    IN IF cases = <<>> THEN <<>> ELSE <<cases[Len(cases)]>>

\* assignmentMap[assignment]
CasesOf(ps, assignment) ==
    LET Named(ac) == ac.Detail.Name = assignment
    IN SelectSeq(AllCases(ps), Named)


\* What sort.Slice may leave of the cases of an assignment.
SortCases(cases) ==
    { [k \in 1..Len(cases) |-> cases[q[k]]] :
        q \in SortedOrders(Len(cases),
                           [a \in 1..Len(cases) |->
                              [b \in 1..Len(cases) |-> ~PctGT(cases[b].Detail.MaxSimilarity,
                                                     cases[a].Detail.MaxSimilarity)]]) }

\* CaseLines with the two numbers of the case reference in the other order.
CaseLines_Swapped(ac) ==
    <<Event("case", ac.AssignmentNumInCase, ac.CaseNum, ac.Detail.Name,
            <<ac.Pair.Student1>>, <<ac.Pair.Student2>>, Zero)>>
    \o FileLines(ac.Detail, ac.AssignmentNumInCase, ac.CaseNum)

CaseLines(ac) ==
    <<Event("case", ac.CaseNum, ac.AssignmentNumInCase, ac.Detail.Name,
            <<ac.Pair.Student1>>, <<ac.Pair.Student2>>, Zero)>>
    \o FileLines(ac.Detail, ac.CaseNum, ac.AssignmentNumInCase)

\* The blocks that may be printed for an assignment: nothing when it has no
\* case, else its header and its cases in an order the sort may leave.
AssignmentBlocks(ps, assignment) ==
    IF Len(CasesOf(ps, assignment)) = 0 THEN {<<>>}
    ELSE { <<Event("assignment", 0, 0, assignment, <<>>, <<>>, Zero)>>
           \o Flatten([k \in 1..Len(sorted) |-> CaseLines(sorted[k])]) :
             sorted \in SortCases(CasesOf(ps, assignment)) }

\* The listings printPairListByAssignment may print.
RECURSIVE printPairListByAssignment(_, _)
printPairListByAssignment(ps, assignments) ==
    IF assignments = <<>> THEN {<<>>}
    ELSE { block \o rest : block \in AssignmentBlocks(ps, Head(assignments)),
                           rest \in printPairListByAssignment(ps, Tail(assignments)) }

\* The listings the end of printOverallSummary may print.
PrintList(ps, by, assignments) ==
    IF by = orderByAssignment
    THEN printPairListByAssignment(ps, assignments)
    ELSE {printPairListByStudent(ps)}

\* The assignments the print command of diff mode extracts from the pairs.
FlaggedNames(ps) ==
    SortStrings(UNION {{d.Name : d \in Range(ps[i].FlaggedAssignments)} : i \in DOMAIN ps})

\* cmd.CombinedOutput() of `diff -u file1 file2`: exec fails without output
\* when there is no diff command; diff exits with status 2 and a message on
\* stderr when it cannot read a file, with status 1 and the hunks when the
\* files differ, and with status 0 and no output when they do not.
CombinedOutput(file1, file2) ==
    IF ~diffBinary THEN [err |-> TRUE, output |-> ""]
    ELSE IF \E f \in {file1, file2} : f \notin DOMAIN files \/ ~files[f].readable
    THEN [err |-> TRUE, output |-> "diff: No such file or directory"]
    ELSE IF files[file1].lines # files[file2].lines
    THEN [err |-> TRUE, output |-> "@@ hunks @@"]
    ELSE [err |-> FALSE, output |-> ""]

\* What the loop over the file comparisons prints for one of them after its
\* header: the output of diff through printColoredDiff (kind "colored"), or
\* one of the two messages.
DiffLines(fc, caseNum, assignmentNum, name) ==
    <<Event("diff", caseNum, assignmentNum, name, fc.File1, fc.File2, fc.Similarity),
      IF CombinedOutput(fc.File1, fc.File2).err
      THEN IF CombinedOutput(fc.File1, fc.File2).output # ""
           THEN Event("colored", caseNum, assignmentNum,
                      CombinedOutput(fc.File1, fc.File2).output, fc.File1, fc.File2, Zero)
           ELSE Message("Error running diff")
      ELSE Message("Files are identical")>>

showDiffForAssignment(assignment, caseNum, assignmentNum) ==
    <<Event("header", caseNum, assignmentNum, assignment.Name, <<>>, <<>>,
            assignment.MaxSimilarity)>>
    \o Flatten([k \in 1..Len(assignment.FileComparisons) |->
                   DiffLines(assignment.FileComparisons[k], caseNum, assignmentNum,
                             assignment.Name)])

\* showDiffsForCase stopping after the first flagged assignment.
showDiffsForCase_FirstOnly(pair, caseNum) ==
    <<Event("case", caseNum, 0, "", <<pair.Student1>>, <<pair.Student2>>, Zero)>>
    \o showDiffForAssignment(pair.FlaggedAssignments[1], caseNum, 1)

showDiffsForCase(pair, caseNum) ==
    <<Event("case", caseNum, 0, "", <<pair.Student1>>, <<pair.Student2>>, Zero)>>
    \o Flatten([k \in 1..Len(pair.FlaggedAssignments) |->
                   showDiffForAssignment(pair.FlaggedAssignments[k], caseNum, k)])

\* strings.Split(s, sep)
RECURSIVE Split(_, _)
Split(s, sep) ==
    IF Index(s, sep) = -1 THEN <<s>>
    ELSE <<SliceTo(s, Index(s, sep))>> \o Split(SliceFrom(s, Index(s, sep) + Len(sep)), sep)

DigitChars == <<"0", "1", "2", "3", "4", "5", "6", "7", "8", "9">>



RECURSIVE ParseDigits(_, _)
ParseDigits(s, n) ==
    IF s = <<>> THEN n ELSE ParseDigits(Tail(s), n * 10 + (CHOOSE d \in DOMAIN DigitChars : DigitChars[d] = Head(s)) - 1)

\* The digits of s after an optional sign.
Unsigned(s) == IF s # <<>> /\ Head(s) \in {"+", "-"} THEN Tail(s) ELSE s

\* strconv.Atoi for strings too short to overflow.
Atoi(s) ==
    IF Unsigned(s) = <<>> \/ \E k \in DOMAIN Unsigned(s) : Unsigned(s)[k] \notin Range(DigitChars)
    THEN [n |-> 0, err |-> TRUE]
    ELSE [n |-> IF Head(s) = "-" THEN 0 - ParseDigits(Unsigned(s), 0)
                ELSE ParseDigits(Unsigned(s), 0),
          err |-> FALSE]


\* What one pass of the loop of promptAndShowDiff leaves.
Outcome(out, next) == [out |-> out, dpc |-> next]

Again(out) == {Outcome(out, "awaiting")}

\* The check for quit, for q only.
IsQuitCommand_LowerOnly(input) == input = <<"q">>

IsQuitCommand(input) == input = <<"q">> \/ input = <<"Q">>

IsPrintCommand(input) == input = <<"p">> \/ input = <<"P">> \/ input = <<"p", "r", "i", "n", "t">>

\* A case and assignment number: the diffs of one flagged assignment.
SelectAssignment(caseNum, assignmentNum) ==
    IF \/ assignmentNum.err
       \/ assignmentNum.n < 1
       \/ assignmentNum.n > Len(pairs[caseNum].FlaggedAssignments)
    THEN Again(<<Message("Invalid assignment number.")>>)
    ELSE Again(showDiffForAssignment(pairs[caseNum].FlaggedAssignments[assignmentNum.n],
                                     caseNum, assignmentNum.n))

SelectCase(parts, caseNum) ==
    IF Len(parts) = 2
    THEN SelectAssignment(caseNum, Atoi(parts[2]))
    ELSE Again(showDiffsForCase(pairs[caseNum], caseNum))

ParseCaseNum(parts, caseNum) ==
    IF caseNum.err \/ caseNum.n < 1 \/ caseNum.n > Len(pairs)
    THEN Again(<<Message("Invalid case number.")>>)
    ELSE SelectCase(parts, caseNum.n)

\* ParseCase without the check of the number of parts.
ParseCase_AnyParts(parts) == ParseCaseNum(parts, Atoi(parts[1]))

ParseCase(parts) ==
    IF Len(parts) = 0 \/ Len(parts) > 2
    THEN Again(<<Message("Invalid format.")>>)
    ELSE ParseCaseNum(parts, Atoi(parts[1]))

\* The pass of the loop for the trimmed line input: the outcomes it may have.
Command(input) ==
    IF IsQuitCommand(input) THEN {Outcome(<<Message("Exiting diff mode.")>>, "exiting")}
    ELSE IF IsPrintCommand(input)
    THEN {Outcome(listing, "awaiting") : listing \in PrintList(pairs, orderBy, FlaggedNames(pairs))}
    ELSE ParseCase(Split(input, <<".">>))

(***************************************************************************)
(* Specification SpecNorm: normalizeLines applied to the lines of a text,   *)
(* and then to its own output.                                             *)
(***************************************************************************)

\* The texts of at most MaxTokens tokens, and one longer text of four lines:
\* a padded line with a run of whitespace in it, a blank line, a comment and
\* a plain line.
NormTexts ==
    { Flatten(ts) :
        ts \in SeqsUpTo({ <<"a">>, <<" ">>, <<"\t">>, <<"\n">>, SlashSlash, SlashStar,
                          StarSlash, <<"/", "*", "*", "/">>, Hash, Star, HtmlOpen },
                        MaxTokens) }
    \cup { <<" ", "a", " ", "\t", "a", " ", "\n", "\t", "\n", "/", "/", " ", "a", "\n",
             "a", "*">> }

NoResult == [sim |-> Zero, err |-> FALSE]

NoComparisonResult == [Results |-> <<>>, Assignments |-> <<>>]

NoInput == [eof |-> FALSE, line |-> <<>>]

DiffIdle ==
    dpc = "idle" /\ dInput = NoInput /\ dReads = 0 /\ dOut = <<>> /\ diffBinary = TRUE
ScoreIdle == sArgs = <<>> /\ sResult = NoResult
ScanIdle == scanArgs = <<>> /\ scanned = <<>>
NormIdle == nRaw = <<>> /\ nOnce = <<>> /\ nTwice = <<>> /\ npc = "idle"
RunNotStarted ==
    /\ studentFolders = <<>>
    /\ result = NoComparisonResult
    /\ pos = 0
    /\ scoreLog = <<>>
    /\ fatal = ""
    /\ sumArgs = [threshold |-> Zero, filterStudent |-> "", filterAssignment |-> ""]
    /\ pairs = <<>>
RunIdle ==
    /\ rootReadable = FALSE
    /\ rootEntries = {}
    /\ tree = <<>>
    /\ dirMode = <<>>
    /\ orderBy = ""
    /\ pc = "idle"
    /\ RunNotStarted

InitNorm ==
    /\ files = <<>>
    /\ nRaw \in {ScanLines(t) : t \in NormTexts}
    /\ nOnce = <<>>
    /\ nTwice = <<>>
    /\ npc = "raw"
    /\ ScoreIdle
    /\ ScanIdle
    /\ RunIdle
    /\ DiffIdle

NormalizeOnce ==
    /\ npc = "raw"
    /\ nOnce' = normalizeLines(nRaw)
    /\ npc' = "once"
    /\ UNCHANGED <<files, nRaw, nTwice, sArgs, sResult, scanArgs, scanned>>
    /\ UNCHANGED <<rootReadable, rootEntries, tree, dirMode, runVars, diffVars>>

NormalizeAgain ==
    /\ npc = "once"
    /\ nTwice' = normalizeLines(nOnce)
    /\ npc' = "twice"
    /\ UNCHANGED <<files, nRaw, nOnce, sArgs, sResult, scanArgs, scanned>>
    /\ UNCHANGED <<rootReadable, rootEntries, tree, dirMode, runVars, diffVars>>

NextNorm == NormalizeOnce \/ NormalizeAgain

SpecNorm == InitNorm /\ [][NextNorm]_vars

(***************************************************************************)
(* Specification SpecScore: CalculateSimilarity on two files, called in     *)
(* both argument orders.                                                   *)
(***************************************************************************)
LineA == <<"a">>
LineB == <<"b">>
LineC == <<"c">>
LineX == <<"x">>
LineComment == <<"/", "/", " ", "a">>


ScoreFiles ==
    { [p \in {"f1", "f2"} |->
          [readable |-> TRUE, lines |-> IF p = "f1" THEN l1 ELSE l2]] :
        l1 \in SeqsUpTo({LineA, LineB, LineC, LineComment}, MaxFileLines),
        l2 \in SeqsUpTo({LineA, LineX, <<"y">>, <<" ">>}, MaxFileLines) }

InitScore ==
    /\ files \in ScoreFiles
    /\ sArgs = <<>>
    /\ sResult = NoResult
    /\ NormIdle
    /\ ScanIdle
    /\ RunIdle
    /\ DiffIdle

Score ==
    /\ sArgs = <<>>
    /\ \E file1, file2 \in DOMAIN files :
        /\ file1 # file2
        /\ sArgs' = <<file1, file2>>
        /\ sResult' = CalculateSimilarity(file1, file2)
    /\ UNCHANGED <<files, nRaw, nOnce, nTwice, npc, scanArgs, scanned>>
    /\ UNCHANGED <<rootReadable, rootEntries, tree, dirMode, runVars, diffVars>>

NextScore == Score

SpecScore == InitScore /\ [][NextScore]_vars

(***************************************************************************)
(* Specification Spec: one run of the check command over a classroom       *)
(* directory: CompareAssignments, the order-by validation and              *)
(* printOverallSummary.                                                    *)
(***************************************************************************)
Students == {"alice", "bob", "carol"}

LinesAB == <<LineA, LineB>>
LinesAC == <<LineA, LineC>>

TextFile(name, lines) ==
    [name |-> name, readable |-> TRUE, size |-> Len(Flatten(lines)) + Len(lines),
     lines |-> lines]
UnreadableFile(name) == [name |-> name, readable |-> FALSE, size |-> 1, lines |-> <<>>]

NoDir == [exists |-> FALSE, entries |-> {}]
Dir(entries) == [exists |-> TRUE, entries |-> entries]

\* What a student may have as the folder of assignment A1 and of A2.
A1Dirs ==
    { NoDir,
      Dir({[name |-> EmptyHtml, readable |-> TRUE, size |-> 0, lines |-> <<>>],
           TextFile(NotesTxt, LinesAB), TextFile(ResetHtml, LinesAB)}),
      Dir({TextFile(IndexHtml, <<LineComment, LineA, <<" ", "b", " ">>>>),
           TextFile(PageHtml, <<LineX>>),
           TextFile(ResetHtml, LinesAB)}),
      Dir({UnreadableFile(IndexHtml), TextFile(PageHtml, LinesAC)}),
      Dir({UnreadableFile(IndexHtml)}) }

A2Dirs ==
    { NoDir,
      Dir({TextFile(IndexHtml, LinesAC), TextFile(NotesTxt, LinesAC)}) }

\* The last student of the roster may also hold a folder of A2 with other
\* lines than the rest.
A2DirsOf(student) ==
    IF student = "carol" THEN A2Dirs \cup {Dir({TextFile(IndexHtml, LinesAB)})} ELSE A2Dirs


\* The classroom directory always holds a hidden folder, a plain file and the
\* starter folder, next to the folders of the students of the roster.
FixedRootEntries ==
    { [name |-> ".git", isDir |-> TRUE],
      [name |-> "README.md", isDir |-> FALSE],
      [name |-> StarterFolder, isDir |-> TRUE] }

TreeOf(dirs) ==
    [s \in DOMAIN dirs |->
        [a \in {b \in DOMAIN dirs[s] : dirs[s][b].exists} |->
            {e.name : e \in dirs[s][a].entries}]]

FilesOf(dirs) ==
    LET paths == UNION { UNION { { <<s, a, e.name>> : e \in dirs[s][a].entries } :
                                    a \in DOMAIN dirs[s] } : s \in DOMAIN dirs }
    IN [p \in paths |->
          LET e == CHOOSE e \in dirs[p[1]][p[2]].entries : e.name = p[3]
          IN [readable |-> e.readable, size |-> e.size, lines |-> e.lines]]

Thresholds == {Pct(0, 1), Pct(50, 1), Pct(100, 1)}

Init ==
    /\ rootReadable \in BOOLEAN
    /\ \E roster \in SUBSET Students :
        \E a1 \in [roster -> A1Dirs],
           a2 \in {f \in [roster -> UNION {A2DirsOf(s) : s \in roster}] :
                     \A s \in roster : f[s] \in A2DirsOf(s)} :
            LET dirs == [s \in roster \cup {StarterFolder} |->
                            IF s = StarterFolder
                            THEN [a \in {"A1", "A2", ".vscode"} |->
                                    IF a = "A1" THEN Dir({TextFile(IndexHtml, LinesAB)})
                                    ELSE NoDir]
                            ELSE [a \in {"A1", "A2", ".vscode"} |->
                                    IF a = "A1" THEN a1[s]
                                    ELSE IF a = "A2" THEN a2[s]
                                    ELSE Dir({TextFile(IndexHtml, LinesAB)})]]
            IN /\ rootReadable \/ \A s \in roster : a1[s] = NoDir /\ a2[s] = NoDir
               /\ rootEntries = FixedRootEntries \cup
                                  {[name |-> s, isDir |-> TRUE] : s \in roster}
               /\ tree = TreeOf(dirs)
               /\ dirMode = [s \in DOMAIN dirs |-> "r-x"]
               /\ files = FilesOf(dirs)
    /\ orderBy \in {orderByAssignment, orderByStudent, "pair"}
    /\ pc = "start"
    /\ RunNotStarted
    /\ NormIdle
    /\ ScoreIdle
    /\ ScanIdle
    /\ DiffIdle

\* CompareAssignments up to its comparison loops; an error it returns is
\* fatal in the Run function of the command.
CompareStart ==
    /\ pc = "start"
    /\ LET found == FindStudentFolders(StarterFolder)
       IN IF found.err
          THEN /\ pc' = "fatal"
               /\ fatal' = "failed to read classroom directory"
               /\ UNCHANGED <<studentFolders, result, pos>>
          ELSE IF Len(found.folders) < 2
          THEN /\ pc' = "fatal"
               /\ fatal' = "need at least 2 student folders to compare"
               /\ UNCHANGED <<studentFolders, result, pos>>
          ELSE /\ pc' = "compare"
               /\ studentFolders' = found.folders
               /\ result' = [Results |-> EmptyResults(found.folders),
                             Assignments |-> AllAssignments(found.folders)]
               /\ pos' = 1
               /\ UNCHANGED fatal
    /\ UNCHANGED <<orderBy, scoreLog, sumArgs, pairs, diskVars, textVars, diffVars>>

\* The candidate files of a student for an assignment; none when the student
\* has no folder for it, and none when filepath.Walk fails on the folder
\* because 20-assignments cannot be searched (the loop continues on either).
CandidateFiles(student, assignment) ==
    IF ~DirExists(student, assignment) \/ dirMode[student] = "---"
    THEN <<>>
    ELSE FindFilesWithExtension(<<student, assignment>>, Extensions, IgnoreFiles)

\* The two cells stored for (student1, student2, assignment).
\* StoreBoth with the two lists of comparisons stored in each other's cell.
StoreBoth_Crossed(t, comparisons, maxSim) ==
    result' =
      [result EXCEPT
         !.Results[t.student1][t.student2] =
             Put(@, t.assignment,
                 [AssignmentName |-> t.assignment,
                  FileComparisons |-> Reversed(comparisons),
                  MaxSimilarity |-> maxSim]),
         !.Results[t.student2][t.student1] =
             Put(@, t.assignment,
                 [AssignmentName |-> t.assignment,
                  FileComparisons |-> comparisons,
                  MaxSimilarity |-> maxSim])]

StoreBoth(t, comparisons, maxSim) ==
    result' =
      [result EXCEPT
         !.Results[t.student1][t.student2] =
             Put(@, t.assignment,
                 [AssignmentName |-> t.assignment,
                  FileComparisons |-> comparisons,
                  MaxSimilarity |-> maxSim]),
         !.Results[t.student2][t.student1] =
             Put(@, t.assignment,
                 [AssignmentName |-> t.assignment,
                  FileComparisons |-> Reversed(comparisons),
                  MaxSimilarity |-> maxSim])]

SortAndStore(t, scored) ==
    \E comparisons \in SortComparisons(scored) :
        StoreBoth(t, comparisons, MaxSim(scored, Zero))

\* CompareFiles scoring every file pair again, in reversed roles, for the
\* mirrored cell.
CompareFiles_ScoreMirror(t, filePairs) ==
    /\ scoreLog' = scoreLog \o filePairs
                    \o [k \in 1..Len(filePairs) |-> <<filePairs[k][2], filePairs[k][1]>>]
    /\ SortAndStore(t, Comparisons(filePairs))

\* CompareFiles storing no cell when no file pair could be scored.
CompareFiles_SkipUnscored(t, filePairs) ==
    /\ scoreLog' = scoreLog \o filePairs
    /\ IF Len(Comparisons(filePairs)) = 0 THEN UNCHANGED result
       ELSE SortAndStore(t, Comparisons(filePairs))

CompareFiles(t, filePairs) ==
    /\ scoreLog' = scoreLog \o filePairs
    /\ SortAndStore(t, Comparisons(filePairs))

\* CompareStudents without the tests for zero candidate files.
CompareStudents_StoreEmpty(t, files1, files2) ==
    CompareFiles(t, FilePairs(files1, files2))

CompareStudents(t, files1, files2) ==
    IF Len(files1) = 0 \/ Len(files2) = 0
    THEN UNCHANGED <<result, scoreLog>>
    ELSE CompareFiles(t, FilePairs(files1, files2))

\* One pass of the innermost student loop of CompareAssignments: the pair
\* (student1, student2) for one assignment.
CompareCell ==
    /\ pc = "compare"
    /\ pos <= NumTriples
    /\ CompareStudents(TripleAt(pos),
                       CandidateFiles(TripleAt(pos).student1, TripleAt(pos).assignment),
                       CandidateFiles(TripleAt(pos).student2, TripleAt(pos).assignment))
    /\ pos' = pos + 1
    /\ UNCHANGED <<orderBy, pc, studentFolders, fatal, sumArgs, pairs, diskVars, textVars,
                   diffVars>>

\* CompareAssignments returns; the command sorts the students and validates
\* the order-by flag.
ValidateOrderBy ==
    /\ pc = "compare"
    /\ pos > NumTriples
    /\ IF Len(SortStrings(DOMAIN result.Results)) = 0
       THEN pc' = "done" /\ UNCHANGED fatal
       ELSE IF orderBy # orderByStudent /\ orderBy # orderByAssignment
       THEN pc' = "fatal" /\ fatal' = "invalid order-by value"
       ELSE pc' = "summary" /\ UNCHANGED fatal
    /\ UNCHANGED <<orderBy, studentFolders, result, pos, scoreLog, sumArgs, pairs,
                   diskVars, textVars, diffVars>>

\* A summary step that keeps in the matrix only the rows of the students of
\* the summary.
Summarize_Prunes ==
    /\ pc = "summary"
    /\ \E threshold \in Thresholds, filterStudent \in {"", "bob", "starter"},
          filterAssignment \in {"", "A2"} :
        /\ sumArgs' = [threshold |-> threshold, filterStudent |-> filterStudent,
                       filterAssignment |-> filterAssignment]
        /\ pairs' \in printOverallSummary(SortStrings(DOMAIN result.Results), result,
                                          threshold, filterStudent, filterAssignment)
    /\ result' = [result EXCEPT !.Results =
                    [A \in {pairs'[k].Student1 : k \in DOMAIN pairs'} |-> result.Results[A]]]
    /\ pc' = "reported"
    /\ UNCHANGED <<orderBy, studentFolders, pos, scoreLog, fatal,
                   diskVars, textVars, diffVars>>

Summarize ==
    /\ pc = "summary"
    /\ \E threshold \in Thresholds, filterStudent \in {"", "bob", "starter"},
          filterAssignment \in {"", "A2"} :
        /\ sumArgs' = [threshold |-> threshold, filterStudent |-> filterStudent,
                       filterAssignment |-> filterAssignment]
        /\ pairs' \in printOverallSummary(SortStrings(DOMAIN result.Results), result,
                                          threshold, filterStudent, filterAssignment)
    /\ pc' = "reported"
    /\ UNCHANGED <<orderBy, studentFolders, result, pos, scoreLog, fatal,
                   diskVars, textVars, diffVars>>

Next == CompareStart \/ CompareCell \/ ValidateOrderBy \/ Summarize

Spec == Init /\ [][Next]_vars

(***************************************************************************)
(* Specification SpecScan: FindFilesWithExtension on an assignment folder   *)
(* with files whose names end with .js, with .min.js and so with both, or   *)
(* with neither, for the extensions in either order and some ignore lists. *)
(***************************************************************************)
InitScan ==
    /\ \E names \in SUBSET {IndexHtml, NotesTxt, <<"reset", ".js">>, <<"reset", ".min", ".js">>,
                             <<"site", ".min", ".js">>} :
         \E empty \in SUBSET names :
            /\ tree = [s \in {"alice"} |-> [a \in {"A1"} |-> names]]
            /\ files = [path \in {<<"alice", "A1", n>> : n \in names} |->
                           [readable |-> TRUE,
                            size |-> IF path[3] \in empty THEN 0 ELSE 4,
                            lines |-> IF path[3] \in empty THEN <<>> ELSE LinesAB]]
    /\ dirMode = [s \in {"alice"} |-> "r-x"]
    /\ rootReadable = TRUE
    /\ rootEntries = {[name |-> "alice", isDir |-> TRUE]}
    /\ orderBy = ""
    /\ pc = "idle"
    /\ RunNotStarted
    /\ ScanIdle
    /\ NormIdle
    /\ ScoreIdle
    /\ DiffIdle

\* One call of FindFilesWithExtension, with the extensions and the ignore
\* list the flags --extension and --ignore gave.
Scan ==
    /\ scanArgs = <<>>
    /\ \E extensions \in {<<<<".js">>>>, <<<<".js">>, <<".min", ".js">>>>,
                           <<<<".min", ".js">>, <<".js">>>>, <<<<".html">>, <<".min", ".js">>>>},
          ignoreFiles \in {{}, {<<"reset">>}, {<<"site">>, <<"reset", ".min">>}} :
         /\ scanArgs' = [dirPath |-> <<"alice", "A1">>, extensions |-> extensions,
                         ignoreFiles |-> ignoreFiles]
         /\ scanned' = FindFilesWithExtension(<<"alice", "A1">>, extensions, ignoreFiles)
    /\ UNCHANGED <<nRaw, nOnce, nTwice, npc, sArgs, sResult, runVars, diskVars, diffVars>>

SpecScan == InitScan /\ [][Scan]_vars

(***************************************************************************)
(* Specification SpecDisc: runs of the check command in a classroom of     *)
(* three students with at most the assignment A1, where the directory      *)
(* 20-assignments of a student may lack its read bit ("--x": its entries   *)
(* cannot be listed, the folders in it can be reached) or its read and     *)
(* search bits ("---").                                                    *)
(***************************************************************************)
InitDisc ==
    /\ rootReadable = TRUE
    /\ \E a1 \in [Students -> {NoDir, Dir({TextFile(IndexHtml, LinesAB)}),
                                Dir({TextFile(IndexHtml, LinesAC)})}],
          modes \in [Students -> {"r-x", "--x", "---"}] :
            LET dirs == [s \in Students |-> [a \in {"A1"} |-> a1[s]]]
            IN /\ rootEntries = FixedRootEntries \cup
                                  {[name |-> s, isDir |-> TRUE] : s \in Students}
               /\ tree = TreeOf(dirs)
               /\ dirMode = modes
               /\ files = FilesOf(dirs)
    /\ orderBy \in {orderByAssignment, orderByStudent}
    /\ pc = "start"
    /\ RunNotStarted
    /\ NormIdle
    /\ ScoreIdle
    /\ ScanIdle
    /\ DiffIdle

SpecDisc == InitDisc /\ [][Next]_vars

(***************************************************************************)
(* Specification SpecDiff: the end of a run of the check command with the   *)
(* --diff flag, from a returned matrix: printOverallSummary and the listing *)
(* at its end, then the loop of promptAndShowDiff over the lines of stdin. *)
(***************************************************************************)
\* A cell of a matrix: the files index.html, page.html, ... of the two
\* students for the assignment, compared one to one with the similarities
\* sims (whole percentages, sorted highest first).
CellOf(A, B, assignment, sims) ==
    [AssignmentName |-> assignment,
     FileComparisons |->
        [k \in 1..Len(sims) |->
            [File1 |-> <<A, assignment, FileOrder[k + 1]>>,
             File2 |-> <<B, assignment, FileOrder[k + 1]>>,
             Similarity |-> Pct(sims[k], 1)]],
     MaxSimilarity |-> IF sims = <<>> THEN Zero ELSE Pct(sims[1], 1)]


\* The matrix CompareAssignments returns for students whose cells have the
\* similarities sims[<<A, B>>][assignment], A before B.
MatrixOf(students, sims) ==
    [Assignments |-> <<"A1", "A2">>,
     Results |->
        [A \in students |->
            [B \in students \ {A} |->
                IF <<A, B>> \in DOMAIN sims
                THEN [a \in DOMAIN sims[<<A, B>>] |-> CellOf(A, B, a, sims[<<A, B>>][a])]
                ELSE IF <<B, A>> \in DOMAIN sims
                THEN [a \in DOMAIN sims[<<B, A>>] |->
                        [CellOf(B, A, a, sims[<<B, A>>][a]) EXCEPT
                            !.FileComparisons = Reversed(@)]]
                ELSE <<>>]]]

BothA1A2(s1, s2) == [a \in {"A1", "A2"} |-> IF a = "A1" THEN s1 ELSE s2]

DiffMatrices ==
    { MatrixOf({"alice", "bob"}, <<>>),
      MatrixOf({"alice", "bob"},
               [p \in {<<"alice", "bob">>} |-> BothA1A2(<<100, 50>>, <<80>>)]),
      MatrixOf({"alice", "bob", "carol"},
               [p \in {<<"alice", "bob">>, <<"alice", "carol">>, <<"bob", "carol">>} |->
                   IF p = <<"alice", "bob">> THEN BothA1A2(<<100, 50>>, <<100>>)
                   ELSE IF p = <<"alice", "carol">> THEN [a \in {"A2"} |-> <<100>>]
                   ELSE BothA1A2(<<40>>, <<60>>)]) }


\* The disk when the diffs are run, after the scoring: every file of the
\* matrix but the index.html of bob's A2, removed since; the index.html of
\* A1 is the same for alice and bob, that of A2 for alice and carol.
DiffDisk(matrix) ==
    LET cells == UNION {UNION {{matrix.Results[A][B][a] : a \in DOMAIN matrix.Results[A][B]} :
                                 B \in DOMAIN matrix.Results[A]} :
                          A \in DOMAIN matrix.Results}
        paths == UNION {UNION {{fc.File1, fc.File2} : fc \in Range(c.FileComparisons)} :
                          c \in cells}
    IN [path \in paths \ {<<"bob", "A2", IndexHtml>>} |->
          [readable |-> TRUE, size |-> 4,
           lines |-> IF path[3] = IndexHtml
                     THEN (IF path[1] = "carol" /\ path[2] = "A1" THEN LinesAC ELSE LinesAB)
                     ELSE (IF path[1] = "alice" THEN LinesAB ELSE LinesAC)]]

\* The lines that may be typed: every line of at most two characters, and
\* some longer ones.
InputLines ==
    LET LineChars == {"1", "2", "3", "0", ".", "q", "Q", "p", "P", " ", "+", "-"}
    IN {<<>>} \cup {<<c>> : c \in LineChars}
       \cup {<<c, d>> : c \in LineChars, d \in LineChars}
       \cup
    { <<"p", "r", "i", "n", "t">>,
      <<"1", ".", "1">>, <<"1", ".", "2">>, <<"1", ".", "3">>, <<"2", ".", "1">>,
      <<"2", ".", "2">>, <<"3", ".", "1">>, <<"3", ".", "2">>, <<"0", ".", "1">>,
      <<"1", ".", "0">>, <<"1", ".", ".">>, <<".", ".", "1">>, <<"1", ".", "1", ".">>,
      <<"1", ".", "1", ".", "1">>, <<" ", "1", " ">>, <<" ", "q", " ">>,
      <<" ", "p", " ">>, <<"1", " ", ".", "1">>, <<"+", "1", ".", "1">>,
      <<"1", ".", "+", "1">>, <<"0", "1", ".", "1">>, <<"1", ".", "0", "1">>,
      <<"-", "1", ".", "1">>, <<"1", ".", "-", "1">>, <<"q", ".", "1">>,
      <<"1", ".", "q">>, <<"P", "r", "i", "n", "t">>, <<"p", "r", "i">>,
      <<"1", "2", "3">>, <<"1", ".", "1", "2">>, <<" ", "2", ".", "1", " ">>,
      <<" ", " ", "Q">>, <<"+", "0", "1">> }

InitDiff ==
    /\ result \in DiffMatrices
    /\ sumArgs = [threshold |-> Zero, filterStudent |-> "", filterAssignment |-> ""]
    /\ pairs = <<>>
    /\ orderBy \in {orderByAssignment, orderByStudent}
    /\ pc = "summary"
    /\ rootReadable = TRUE
    /\ rootEntries = {}
    /\ tree = <<>>
    /\ dirMode = <<>>
    /\ files = DiffDisk(result)
    /\ diffBinary \in BOOLEAN
    /\ studentFolders = SortStrings(DOMAIN result.Results)
    /\ pos = 0
    /\ scoreLog = <<>>
    /\ fatal = ""
    /\ dpc = "summary"
    /\ dInput = NoInput
    /\ dReads = 0
    /\ dOut = <<>>
    /\ NormIdle
    /\ ScoreIdle
    /\ ScanIdle

\* The end of printOverallSummary prints the listing; the command then enters
\* diff mode if the flag is set and there are pairs, and ends otherwise.
ShowList ==
    /\ pc = "reported"
    /\ dpc = "summary"
    /\ dOut' \in PrintList(pairs, orderBy, result.Assignments)
    /\ \E showDiff \in BOOLEAN :
         dpc' = IF showDiff /\ Len(pairs) > 0 THEN "awaiting" ELSE "done"
    /\ UNCHANGED <<dInput, dReads, diffBinary, runVars, diskVars, textVars>>

\* reader.ReadString fails at the end of stdin: the loop returns.
ReadEnd ==
    /\ dpc = "awaiting"
    /\ dInput' = [eof |-> TRUE, line |-> <<>>]
    /\ dOut' = <<Message("Error reading input")>>
    /\ dpc' = "exiting"
    /\ UNCHANGED <<dReads, diffBinary, runVars, diskVars, textVars>>

\* One pass of the loop for a line of stdin: any of InputLines as the first
\* line, one of a few as a later line.
ReadCommand ==
    /\ dpc = "awaiting"
    /\ dReads < MaxCommands
    /\ \E line \in IF dReads = 0 THEN InputLines
                   ELSE { <<"q">>, <<"p">>, <<"1">>, <<"2">>, <<"3">>, <<"1", ".", "2">>,
                          <<"2", ".", "1">>, <<"1", ".", "q">>, <<>>, <<" ", "Q", " ">> } :
         /\ dInput' = [eof |-> FALSE, line |-> line]
         /\ \E outcome \in Command(TrimSpace(line)) :
              /\ dOut' = outcome.out
              /\ dpc' = outcome.dpc
    /\ dReads' = dReads + 1
    /\ UNCHANGED <<diffBinary, runVars, diskVars, textVars>>

NextDiff == Summarize \/ ShowList \/ ReadEnd \/ ReadCommand

\* stdin is finite and the loop does nothing but read it: a step that can be
\* taken is taken.
SpecDiff == InitDiff /\ [][NextDiff]_vars /\ WF_vars(NextDiff)

(***************************************************************************)
(* Claims about the run of the check command (Spec)                        *)
(***************************************************************************)
\* CompareAssignments has returned a matrix.
Returned ==
    \/ pc \in {"summary", "reported", "done"}
    \/ pc = "fatal" /\ fatal = "invalid order-by value"

Reported == pc = "reported"

SortedStudents == SortStrings(DOMAIN result.Results)

Cell(A, B, assignment) == result.Results[A][B][assignment]

CellExists(A, B, assignment) ==
    /\ A \in DOMAIN result.Results
    /\ B \in DOMAIN result.Results[A]
    /\ assignment \in DOMAIN result.Results[A][B]

StoredCells ==
    { c \in (DOMAIN result.Results) \X (DOMAIN result.Results) \X Range(StringOrder) :
        CellExists(c[1], c[2], c[3]) }

\* C1: after CompareAssignments has returned, every stored cell (A, B,
\* assignment) has a mirrored cell (B, A, assignment) with the same
\* MaxSimilarity and as many FileComparisons, the i-th of which has File1 and
\* File2 swapped and the same Similarity.
C1_MatrixSymmetric ==
    Returned =>
        \A c \in StoredCells :
            /\ CellExists(c[2], c[1], c[3])
            /\ Cell(c[2], c[1], c[3]).MaxSimilarity = Cell(c[1], c[2], c[3]).MaxSimilarity
            /\ Len(Cell(c[2], c[1], c[3]).FileComparisons)
                 = Len(Cell(c[1], c[2], c[3]).FileComparisons)
            /\ \A i \in DOMAIN Cell(c[1], c[2], c[3]).FileComparisons :
                 /\ Cell(c[2], c[1], c[3]).FileComparisons[i].File1
                      = Cell(c[1], c[2], c[3]).FileComparisons[i].File2
                 /\ Cell(c[2], c[1], c[3]).FileComparisons[i].File2
                      = Cell(c[1], c[2], c[3]).FileComparisons[i].File1
                 /\ Cell(c[2], c[1], c[3]).FileComparisons[i].Similarity
                      = Cell(c[1], c[2], c[3]).FileComparisons[i].Similarity

\* A returned matrix with a cell of several file comparisons whose
\* similarities differ.
C1_Witness ==
    /\ Returned
    /\ \E c \in StoredCells :
         \E i, j \in DOMAIN Cell(c[1], c[2], c[3]).FileComparisons :
            PctGT(Cell(c[1], c[2], c[3]).FileComparisons[i].Similarity,
                  Cell(c[1], c[2], c[3]).FileComparisons[j].Similarity)

\* The file comparisons of a cell that reach the threshold, in stored order.
RECURSIVE Reaching(_, _)
Reaching(fileComparisons, threshold) ==
    IF fileComparisons = <<>> THEN <<>>
    ELSE (IF Head(fileComparisons).Similarity[1] * threshold[2]
               >= threshold[1] * Head(fileComparisons).Similarity[2]
          THEN <<Head(fileComparisons)>> ELSE <<>>)
         \o Reaching(Tail(fileComparisons), threshold)

\* The assignment qualifies for the summary of the pair (A, B) under args.
Qualifies(A, B, assignment, args) ==
    /\ CellExists(A, B, assignment)
    /\ args.filterAssignment = "" \/ assignment = args.filterAssignment
    /\ Cell(A, B, assignment).MaxSimilarity[1] * args.threshold[2]
         >= args.threshold[1] * Cell(A, B, assignment).MaxSimilarity[2]
    /\ Reaching(Cell(A, B, assignment).FileComparisons, args.threshold) # <<>>

Details(pair, assignment) ==
    {k \in DOMAIN pair.FlaggedAssignments : pair.FlaggedAssignments[k].Name = assignment}

\* C6: an assignment is in a student pair's summary iff its cell exists,
\* passes the assignment filter, has MaxSimilarity >= threshold and has a
\* FileComparison with Similarity >= threshold; its AssignmentDetail lists
\* exactly the cell's FileComparisons with Similarity >= threshold, in stored
\* order.
C6_FlaggedIffQualifies ==
    Reported =>
        \A n \in DOMAIN pairs : \A assignment \in Range(StringOrder) :
            /\ (Details(pairs[n], assignment) # {})
                  <=> Qualifies(pairs[n].Student1, pairs[n].Student2, assignment, sumArgs)
            /\ Cardinality(Details(pairs[n], assignment)) <= 1
            /\ \A k \in Details(pairs[n], assignment) :
                  pairs[n].FlaggedAssignments[k].FileComparisons
                    = Reaching(Cell(pairs[n].Student1, pairs[n].Student2,
                                    assignment).FileComparisons, sumArgs.threshold)

\* A summary with a flagged assignment that lists fewer file comparisons than
\* its cell holds, and with a pair that has a stored cell that is not flagged.
C6_Witness ==
    /\ Reported
    /\ \E n \in DOMAIN pairs : \E k \in DOMAIN pairs[n].FlaggedAssignments :
          Len(pairs[n].FlaggedAssignments[k].FileComparisons)
            < Len(Cell(pairs[n].Student1, pairs[n].Student2,
                       pairs[n].FlaggedAssignments[k].Name).FileComparisons)
    /\ \E n \in DOMAIN pairs : \E assignment \in Range(result.Assignments) :
          /\ CellExists(pairs[n].Student1, pairs[n].Student2, assignment)
          /\ Details(pairs[n], assignment) = {}

\* What the summary flags: (Student1, Student2), (Student1, Student2,
\* assignment) and (Student1, Student2, assignment, file comparison).
FlaggedPairs(ps) == {<<p.Student1, p.Student2>> : p \in ps}
FlaggedAssignmentsOf(ps) ==
    UNION {{<<p.Student1, p.Student2, d.Name>> : d \in Range(p.FlaggedAssignments)} : p \in ps}
FlaggedFilesOf(ps) ==
    UNION { UNION {{<<p.Student1, p.Student2, d.Name, fc>> : fc \in Range(d.FileComparisons)} :
                      d \in Range(p.FlaggedAssignments)} : p \in ps }

LowerThresholds == {t \in Thresholds : PctGE(sumArgs.threshold, t)}

AtThreshold(t) ==
    PairMap(SortedStudents, result, t, sumArgs.filterStudent, sumArgs.filterAssignment)

\* C7: threshold filtering is monotonic: with the matrix and the filters
\* fixed, what a threshold flags (pairs, assignments per pair, file
\* comparisons per assignment) is a subset of what any lower threshold flags.
C7_ThresholdMonotonic ==
    Reported =>
        \A t \in LowerThresholds :
            /\ FlaggedPairs(Range(pairs)) \subseteq FlaggedPairs(AtThreshold(t))
            /\ FlaggedAssignmentsOf(Range(pairs)) \subseteq FlaggedAssignmentsOf(AtThreshold(t))
            /\ FlaggedFilesOf(Range(pairs)) \subseteq FlaggedFilesOf(AtThreshold(t))

\* A summary that flags something, and strictly less than a lower threshold
\* does: fewer pairs, and fewer file comparisons for a pair it keeps.
C7_Witness ==
    /\ Reported
    /\ pairs # <<>>
    /\ \E t \in LowerThresholds :
         /\ FlaggedPairs(Range(pairs)) # FlaggedPairs(AtThreshold(t))
         /\ \E f \in FlaggedFilesOf(AtThreshold(t)) \ FlaggedFilesOf(Range(pairs)) :
              <<f[1], f[2]>> \in FlaggedPairs(Range(pairs))

StudentPairs ==
    {p \in (DOMAIN result.Results) \X (DOMAIN result.Results) :
        StringRank(p[1]) < StringRank(p[2])}

\* C8: a student pair is in the summary list iff it has a qualifying
\* assignment and, with a student filter set, one of its two students is the
\* filter; no unordered pair is listed twice.
C8_PairListed ==
    Reported =>
        /\ \A p \in StudentPairs :
             (\E n \in DOMAIN pairs : pairs[n].Student1 = p[1] /\ pairs[n].Student2 = p[2])
               <=> /\ \E assignment \in Range(StringOrder) :
                        Qualifies(p[1], p[2], assignment, sumArgs)
                   /\ sumArgs.filterStudent \in {"", p[1], p[2]}
        /\ \A n \in DOMAIN pairs : <<pairs[n].Student1, pairs[n].Student2>> \in StudentPairs
        /\ \A n, m \in DOMAIN pairs :
             {pairs[n].Student1, pairs[n].Student2} = {pairs[m].Student1, pairs[m].Student2}
               => n = m

\* A summary filtered by student bob that lists a pair with bob as Student2
\* and leaves out a pair that has a qualifying assignment.
C8_Witness ==
    /\ Reported
    /\ sumArgs.filterStudent = "bob"
    /\ \E n \in DOMAIN pairs : pairs[n].Student2 = "bob"
    /\ \E p \in StudentPairs :
         /\ \E assignment \in Range(StringOrder) : Qualifies(p[1], p[2], assignment, sumArgs)
         /\ \A n \in DOMAIN pairs : <<pairs[n].Student1, pairs[n].Student2>> # p

\* The student folders under the root: directories that are neither hidden
\* nor the starter folder.
StudentDirs == {e \in rootEntries : e.isDir /\ e.name \in Students}

\* C9: with fewer than two student folders under the root, CompareAssignments
\* returns an error and no matrix, and no file is read or scored.
C9_TooFewStudents ==
    (pc # "start" /\ rootReadable /\ Cardinality(StudentDirs) < 2) =>
        /\ pc = "fatal"
        /\ fatal = "need at least 2 student folders to compare"
        /\ result = NoComparisonResult
        /\ scoreLog = <<>>
        /\ pairs = <<>>

\* The run has failed on a root that holds exactly one student folder, whose
\* assignment folder has candidate files.
C9_Witness ==
    /\ pc = "fatal"
    /\ rootReadable
    /\ Cardinality(StudentDirs) = 1
    /\ \E e \in StudentDirs : CandidateFiles(e.name, "A2") # <<>>

\* C10: every configuration error aborts the run before any scoring: when the
\* run fails fatally, an invalid order-by value included, CompareAssignments
\* has scored no file pair.
C10_FatalBeforeScoring == pc = "fatal" => scoreLog = <<>>

\* The assignment folders a classroom may hold.
AssignmentNames == {"A1", "A2", ".vscode"}

\* What is on disk: the student has a folder for the assignment, and the names
\* of the files in it that are candidates (not empty, with the extension
\* .html, and a base name that is not ignored).
HasFolder(student, assignment) ==
    student \in DOMAIN tree /\ assignment \in DOMAIN tree[student]

CandidatesOnDisk(student, assignment) ==
    IF HasFolder(student, assignment)
    THEN { <<student, assignment, name>> : name \in
             { n \in tree[student][assignment] :
                 /\ files[<<student, assignment, n>>].size > 0
                 /\ n[Len(n)] = ".html"
                 /\ SubSeq(n, 1, Len(n) - 1) # <<"reset">> } }
    ELSE {}

\* C11: if, for an assignment, either student of a pair lacks the assignment
\* folder or has no candidate file in it, no cell is stored for (studentA,
\* studentB, assignment) in either direction, at no time of the run.
C11_NoCellWithoutCandidates ==
    \A A \in Students, B \in Students, assignment \in AssignmentNames :
        (CandidatesOnDisk(A, assignment) = {} \/ CandidatesOnDisk(B, assignment) = {})
            => ~CellExists(A, B, assignment) /\ ~CellExists(B, A, assignment)

\* A returned matrix with a pair of students that has a cell for A2 and none
\* for A1, where both have the folder of A1 and one of them has files but no
\* candidate file in it.
C11_Witness ==
    /\ Returned
    /\ \E A \in Students, B \in Students :
         /\ CellExists(A, B, "A2")
         /\ ~CellExists(A, B, "A1")
         /\ HasFolder(A, "A1") /\ HasFolder(B, "A1")
         /\ tree[A]["A1"] # {} /\ CandidatesOnDisk(A, "A1") = {}
         /\ CandidatesOnDisk(B, "A1") # {}

\* The pairs of candidate files of two students for an assignment, and those
\* of them with two readable files.
CandidatePairs(A, B, assignment) ==
    CandidatesOnDisk(A, assignment) \X CandidatesOnDisk(B, assignment)

ReadablePairs(A, B, assignment) ==
    {fp \in CandidatePairs(A, B, assignment) : files[fp[1]].readable /\ files[fp[2]].readable}

\* C12: a read failure while scoring one file pair skips only that file pair:
\* when CompareAssignments has returned, every pair of students with
\* candidate files for an assignment has a cell that holds exactly the file
\* pairs whose two files could be read, each once, and every candidate file
\* pair was handed to CalculateSimilarity.
C12_ReadFailureSkipsOnePair ==
    Returned =>
        \A p \in StudentPairs : \A assignment \in Range(result.Assignments) :
            CandidatePairs(p[1], p[2], assignment) # {} =>
                /\ CellExists(p[1], p[2], assignment)
                /\ { <<fc.File1, fc.File2>> :
                       fc \in Range(Cell(p[1], p[2], assignment).FileComparisons) }
                     = ReadablePairs(p[1], p[2], assignment)
                /\ Len(Cell(p[1], p[2], assignment).FileComparisons)
                     = Cardinality(ReadablePairs(p[1], p[2], assignment))
                /\ CandidatePairs(p[1], p[2], assignment) \subseteq Range(scoreLog)

\* A returned matrix with a cell for A1 that lost some, not all, of its file
\* pairs to a read failure, followed by a cell for A2 of the same students and
\* a cell for A1 of a later pair of students.
C12_Witness ==
    /\ Returned
    /\ \E p \in StudentPairs :
         /\ ReadablePairs(p[1], p[2], "A1") # {}
         /\ ReadablePairs(p[1], p[2], "A1") # CandidatePairs(p[1], p[2], "A1")
         /\ CellExists(p[1], p[2], "A1")
         /\ CellExists(p[1], p[2], "A2")
         /\ \E q \in StudentPairs :
              /\ StringRank(q[1]) > StringRank(p[1])
              /\ CellExists(q[1], q[2], "A1")
              /\ Cell(q[1], q[2], "A1").FileComparisons # <<>>

\* C21: when FindAssignments fails for a student (the directory 20-assignments
\* cannot be read), the run goes on without a fatal error, no cell of the
\* matrix involves that student, for any assignment and at any time of the
\* run, and no file of that student is handed to CalculateSimilarity.
C21_UnreadableStudentExcluded ==
    \A s \in DOMAIN dirMode :
        dirMode[s] # "r-x" =>
            /\ fatal = ""
            /\ \A c \in StoredCells : c[1] # s /\ c[2] # s
            /\ \A k \in DOMAIN scoreLog : scoreLog[k][1][1] # s /\ scoreLog[k][2][1] # s

\* C17: the summary list is ordered: of two consecutive pairs p, q either p
\* has more flagged assignments, or as many and p.MaxSimilarity >=
\* q.MaxSimilarity; the MaxSimilarity of a pair is the maximum MaxSimilarity
\* of its flagged assignments.
C17_SummaryOrdered ==
    Reported =>
        /\ \A n \in 1..(Len(pairs) - 1) :
             \/ Len(pairs[n].FlaggedAssignments) > Len(pairs[n + 1].FlaggedAssignments)
             \/ /\ Len(pairs[n].FlaggedAssignments) = Len(pairs[n + 1].FlaggedAssignments)
                /\ pairs[n].MaxSimilarity[1] * pairs[n + 1].MaxSimilarity[2]
                     >= pairs[n + 1].MaxSimilarity[1] * pairs[n].MaxSimilarity[2]
        /\ \A n \in DOMAIN pairs :
             /\ \E d \in Range(pairs[n].FlaggedAssignments) :
                  d.MaxSimilarity = pairs[n].MaxSimilarity
             /\ \A d \in Range(pairs[n].FlaggedAssignments) :
                  pairs[n].MaxSimilarity[1] * d.MaxSimilarity[2]
                    >= d.MaxSimilarity[1] * pairs[n].MaxSimilarity[2]

\* A summary of three pairs: the first has more flagged assignments than the
\* second and a smaller MaxSimilarity, the second has as many flagged
\* assignments as the third and a greater MaxSimilarity.
C17_Witness ==
    /\ Reported
    /\ Len(pairs) = 3
    /\ Len(pairs[1].FlaggedAssignments) > Len(pairs[2].FlaggedAssignments)
    /\ PctGT(pairs[2].MaxSimilarity, pairs[1].MaxSimilarity)
    /\ Len(pairs[2].FlaggedAssignments) = Len(pairs[3].FlaggedAssignments)
    /\ pairs[2].MaxSimilarity # pairs[3].MaxSimilarity

\* C18: the matrix never has a diagonal entry: Results[A][A] does not exist
\* for any student A, and no student is compared with itself.
C18_NoDiagonal ==
    /\ \A A \in DOMAIN result.Results : A \notin DOMAIN result.Results[A]
    /\ \A k \in DOMAIN scoreLog : scoreLog[k][1][1] # scoreLog[k][2][1]

\* A returned matrix of three students with scored file pairs.
C18_Witness ==
    /\ Returned
    /\ Cardinality(DOMAIN result.Results) = 3
    /\ Len(scoreLog) > 2

\* C19: in every stored AssignmentComparison the FileComparisons are sorted by
\* Similarity in non-increasing order, the first of them has the cell's
\* MaxSimilarity, and MaxSimilarity is the maximum Similarity of the list (0.0
\* for a list without elements).
C19_CellSorted ==
    \A c \in StoredCells :
        LET fcs == Cell(c[1], c[2], c[3]).FileComparisons
            max == Cell(c[1], c[2], c[3]).MaxSimilarity
        IN /\ \A i, j \in DOMAIN fcs :
                i < j => fcs[i].Similarity[1] * fcs[j].Similarity[2]
                           >= fcs[j].Similarity[1] * fcs[i].Similarity[2]
           /\ fcs # <<>> => fcs[1].Similarity = max
           /\ \A i \in DOMAIN fcs :
                max[1] * fcs[i].Similarity[2] >= fcs[i].Similarity[1] * max[2]
           /\ fcs = <<>> => max = <<0, 1>>

\* A stored cell of four file comparisons, the first with similarity 100 and
\* the last with similarity 0, next to a cell whose maximum is below 100.
C19_Witness ==
    /\ \E c \in StoredCells :
         /\ Len(Cell(c[1], c[2], c[3]).FileComparisons) = 4
         /\ Cell(c[1], c[2], c[3]).FileComparisons[1].Similarity = <<100, 1>>
         /\ Cell(c[1], c[2], c[3]).FileComparisons[4].Similarity = <<0, 1>>
    /\ \E c \in StoredCells :
         /\ Cell(c[1], c[2], c[3]).MaxSimilarity \notin {<<100, 1>>, <<0, 1>>}
         /\ Len(Cell(c[1], c[2], c[3]).FileComparisons) > 1

\* The position of a student in the student folders of the run.
FolderIndex(student) == CHOOSE i \in DOMAIN studentFolders : studentFolders[i] = student

\* C26: each unordered pair of students is scored once per assignment: every
\* call of CalculateSimilarity takes a file of the student at the lower
\* position first and a file of a student at a higher position second, for
\* one assignment, and no pair of files is scored twice, in this order or in
\* the reversed one; a cell that is stored is never written again; cells are
\* stored two at a time, (A, B, assignment) with its mirror, without a call of
\* CalculateSimilarity for the mirror.
C26_ScoredOnce ==
    /\ [](\A k \in DOMAIN scoreLog :
            /\ FolderIndex(scoreLog[k][1][1]) < FolderIndex(scoreLog[k][2][1])
            /\ scoreLog[k][1][2] = scoreLog[k][2][2]
            /\ \A l \in DOMAIN scoreLog :
                 /\ l # k => scoreLog[l] # scoreLog[k]
                 /\ scoreLog[l] # <<scoreLog[k][2], scoreLog[k][1]>>)
    /\ [][/\ \A c \in StoredCells :
               c \in StoredCells' /\ Cell(c[1], c[2], c[3])' = Cell(c[1], c[2], c[3])
          /\ StoredCells' # StoredCells =>
               \E c \in StoredCells' :
                  /\ StoredCells' \ StoredCells = {c, <<c[2], c[1], c[3]>>}
                  /\ FolderIndex(c[1]) < FolderIndex(c[2])
                  /\ \A k \in (Len(scoreLog) + 1)..Len(scoreLog') :
                       /\ scoreLog'[k][1][1] = c[1] /\ scoreLog'[k][2][1] = c[2]
                       /\ scoreLog'[k][1][2] = c[3]
                  /\ Len(scoreLog') - Len(scoreLog)
                       >= Len(Cell(c[1], c[2], c[3])'.FileComparisons)]_vars

\* A returned matrix of three students in which every pair of students has a
\* cell and some cell holds four file comparisons.
C26_Witness ==
    /\ Returned
    /\ Cardinality(DOMAIN result.Results) = 3
    /\ \A p \in StudentPairs : CellExists(p[1], p[2], "A1") /\ CellExists(p[2], p[1], "A1")
    /\ \E c \in StoredCells : Len(Cell(c[1], c[2], c[3]).FileComparisons) = 4
    /\ Len(scoreLog) >= 6

\* C20: the ranking of the summary list is deterministic: printOverallSummary
\* can return, for the matrix, threshold and filters of the run, no other
\* order of the student pairs than the one it returned, ties included.
C20_RankingDeterministic ==
    Reported =>
        printOverallSummary(SortedStudents, result, sumArgs.threshold,
                            sumArgs.filterStudent, sumArgs.filterAssignment) = {pairs}

\* The flagged assignments of the entry of the summary for two students.
FlaggedFor(A, B) ==
    UNION { {pairs[k].FlaggedAssignments[m].Name : m \in DOMAIN pairs[k].FlaggedAssignments} :
              k \in {n \in DOMAIN pairs : {pairs[n].Student1, pairs[n].Student2} = {A, B}} }

\* C28: when both students have candidate files for an assignment and no
\* file pair could be scored (each has a file that cannot be read), the
\* returned matrix has the cell in both directions, with no file comparison
\* and the maximum similarity 0, and the summary, for the threshold 0 as for
\* the thresholds above it, does not flag the assignment for the two students.
C28_UnscoredCellKeptUnflagged ==
    Returned =>
        \A p \in StudentPairs : \A assignment \in Range(result.Assignments) :
            (CandidatePairs(p[1], p[2], assignment) # {}
               /\ ReadablePairs(p[1], p[2], assignment) = {}) =>
                /\ CellExists(p[1], p[2], assignment)
                /\ CellExists(p[2], p[1], assignment)
                /\ Cell(p[1], p[2], assignment).FileComparisons = <<>>
                /\ Cell(p[2], p[1], assignment).FileComparisons = <<>>
                /\ Cell(p[1], p[2], assignment).MaxSimilarity = Zero
                /\ Cell(p[2], p[1], assignment).MaxSimilarity = Zero
                /\ Reported => assignment \notin FlaggedFor(p[1], p[2])

\* A summary for the threshold 0 without filters that lists two students for
\* A2 and not for A1, where both have a candidate file for A1 and no file
\* pair of A1 could be read.
C28_Witness ==
    /\ Reported
    /\ sumArgs = [threshold |-> Zero, filterStudent |-> "", filterAssignment |-> ""]
    /\ \E p \in StudentPairs :
         /\ CandidatePairs(p[1], p[2], "A1") # {}
         /\ ReadablePairs(p[1], p[2], "A1") = {}
         /\ CellExists(p[1], p[2], "A1")
         /\ FlaggedFor(p[1], p[2]) = {"A2"}

\* Every file comparison of every flagged assignment of the pair has its
\* File1 in a folder of Student1 and its File2 in a folder of Student2.
RolesFollow(pair) ==
    \A m \in DOMAIN pair.FlaggedAssignments :
        \A fc \in Range(pair.FlaggedAssignments[m].FileComparisons) :
            /\ fc.File1[1] = pair.Student1
            /\ fc.File2[1] = pair.Student2

\* The students of the matrix in every order.
StudentOrders ==
    LET S == DOMAIN result.Results
    IN {order \in [1..Cardinality(S) -> S] :
          \A a, b \in DOMAIN order : a # b => order[a] # order[b]}

\* C29: in every entry of the summary list, for each of its flagged
\* assignments and file comparisons, File1 lies under the folder of Student1
\* and File2 under that of Student2; and the same holds for the entries
\* printOverallSummary builds from the returned matrix when the students are
\* passed in any other order than the one of the directory listing that the
\* matrix was built in.
C29_FileRolesFollowStudents ==
    /\ Reported => \A k \in DOMAIN pairs : RolesFollow(pairs[k])
    /\ pc = "summary" =>
          \A order \in StudentOrders :
              \A pair \in PairMap(order, result, Zero, "", "") : RolesFollow(pair)

\* A summary of three student pairs, one of them with a flagged assignment
\* of several file comparisons.
C29_Witness ==
    /\ Reported
    /\ Len(pairs) = 3
    /\ \E k \in DOMAIN pairs : \E m \in DOMAIN pairs[k].FlaggedAssignments :
         Len(pairs[k].FlaggedAssignments[m].FileComparisons) >= 2

(***************************************************************************)
(* Claims about the listings and diff mode (SpecDiff)                      *)
(***************************************************************************)
\* The last pass of the loop read a line, and that line without the white
\* space around it.
CommandRead == dReads > 0 /\ ~dInput.eof
LastLine == TrimSpace(dInput.line)

Numerals == <<"1", "2", "3", "4", "5", "6", "7", "8", "9">>

\* s is a decimal integer with the value n (1..9): the numeral of n, after
\* zeros and a plus sign if any.
DenotesInt(s, n) ==
    /\ s # <<>>
    /\ s[Len(s)] = Numerals[n]
    /\ \A k \in 1..(Len(s) - 1) : s[k] = "0" \/ (k = 1 /\ s[k] = "+")

\* s is the command N for a case N of the summary list.
ValidCase(s, N) == N \in DOMAIN pairs /\ DenotesInt(s, N)

\* s is the command N.M for a case N and a flagged assignment M of it.
ValidCaseAssignment(s, N, M) ==
    /\ N \in DOMAIN pairs
    /\ M \in DOMAIN pairs[N].FlaggedAssignments
    /\ \E i \in DOMAIN s :
         /\ s[i] = "."
         /\ DenotesInt(SubSeq(s, 1, i - 1), N)
         /\ DenotesInt(SubSeq(s, i + 1, Len(s)), M)

QuitLine(s) == s \in {<<"q">>, <<"Q">>}
PrintLine(s) == s \in {<<"p">>, <<"P">>, <<"p", "r", "i", "n", "t">>}

\* s is none of the commands of diff mode.
InvalidLine(s) ==
    /\ ~QuitLine(s)
    /\ ~PrintLine(s)
    /\ \A N \in DOMAIN pairs :
         /\ ~ValidCase(s, N)
         /\ \A M \in DOMAIN pairs[N].FlaggedAssignments : ~ValidCaseAssignment(s, N, M)

\* The runs of diff and the assignment headers of the last pass, in order.
IsDiff(e) == e.kind = "diff"
IsHeader(e) == e.kind = "header"
DiffsRun ==
    LET runs == SelectSeq(dOut, IsDiff)
    IN [k \in DOMAIN runs |->
          <<runs[k].caseNum, runs[k].assignmentNum, runs[k].name, runs[k].File1, runs[k].File2>>]
HeadersShown ==
    LET shown == SelectSeq(dOut, IsHeader)
    IN [k \in DOMAIN shown |-> <<shown[k].caseNum, shown[k].assignmentNum, shown[k].name>>]

\* The diffs of flagged assignment M of case N, one for each of its file
\* comparisons, in list order.
DiffsOfAssignment(N, M) ==
    [i \in DOMAIN pairs[N].FlaggedAssignments[M].FileComparisons |->
        <<N, M, pairs[N].FlaggedAssignments[M].Name,
          pairs[N].FlaggedAssignments[M].FileComparisons[i].File1,
          pairs[N].FlaggedAssignments[M].FileComparisons[i].File2>>]

\* C13: in diff mode a valid command N renders the diffs of every flagged
\* assignment of pairs[N-1], in list order and each once; a valid command N.M
\* renders the diffs of the M-th flagged assignment of pairs[N-1] only;
\* afterwards the loop is awaiting a command again.
C13_DiffsRendered ==
    CommandRead =>
        \A N \in DOMAIN pairs :
            /\ ValidCase(LastLine, N) =>
                 /\ dpc = "awaiting"
                 /\ DiffsRun = Flatten([M \in DOMAIN pairs[N].FlaggedAssignments |->
                                           DiffsOfAssignment(N, M)])
                 /\ HeadersShown = [M \in DOMAIN pairs[N].FlaggedAssignments |->
                                       <<N, M, pairs[N].FlaggedAssignments[M].Name>>]
            /\ \A M \in DOMAIN pairs[N].FlaggedAssignments :
                 ValidCaseAssignment(LastLine, N, M) =>
                     /\ dpc = "awaiting"
                     /\ DiffsRun = DiffsOfAssignment(N, M)
                     /\ HeadersShown = <<<<N, M, pairs[N].FlaggedAssignments[M].Name>>>>

\* The second line read was the number of a case with two flagged
\* assignments, and three diffs were run for it.
C13_Witness ==
    /\ CommandRead
    /\ dReads = 2
    /\ \E N \in DOMAIN pairs :
         /\ ValidCase(LastLine, N)
         /\ Len(pairs[N].FlaggedAssignments) = 2
    /\ Len(DiffsRun) = 3
    /\ dpc = "awaiting"

ErrorTexts == {"Invalid format.", "Invalid case number.", "Invalid assignment number."}

FlaggedTriples ==
    UNION { UNION { { <<n, k, i>> : i \in DOMAIN pairs[n].FlaggedAssignments[k].FileComparisons } :
                      k \in DOMAIN pairs[n].FlaggedAssignments } : n \in DOMAIN pairs }

\* The lines of the last listing that show the file comparison of triple t
\* under the case reference of its pair and assignment.
LinesFor(t) ==
    LET detail == pairs[t[1]].FlaggedAssignments[t[2]]
    IN { e \in DOMAIN dOut :
           /\ dOut[e].kind = "file"
           /\ dOut[e].caseNum = t[1]
           /\ dOut[e].assignmentNum = t[2]
           /\ dOut[e].name = detail.Name
           /\ dOut[e].File1 = detail.FileComparisons[t[3]].File1[3]
           /\ dOut[e].File2 = detail.FileComparisons[t[3]].File2[3]
           /\ dOut[e].Similarity = detail.FileComparisons[t[3]].Similarity }

\* The last step printed the listing: at the end of printOverallSummary, or
\* for the print command.
ListingShown ==
    \/ dReads = 0 /\ dpc \in {"awaiting", "done"}
    \/ CommandRead /\ PrintLine(LastLine)

\* C16: both groupings of the listing, by student pair and by assignment,
\* show every flagged (pair, assignment, file comparison) triple exactly
\* once, in the first listing and in the listing of the print command.
C16_EveryTripleOnce ==
    ListingShown =>
        /\ \A t \in FlaggedTriples : Cardinality(LinesFor(t)) = 1
        /\ Cardinality({e \in DOMAIN dOut : dOut[e].kind = "file"})
             = Cardinality(FlaggedTriples)

\* The print command has listed, by assignment, a summary of three pairs with
\* five flagged file comparisons.
C16_Witness ==
    /\ CommandRead
    /\ PrintLine(LastLine)
    /\ orderBy = orderByAssignment
    /\ Len(pairs) = 3
    /\ Cardinality(FlaggedTriples) = 5

\* C22: every run of diff in a pass is followed by exactly one of three
\* reports, by what became of the run: the error line when diff could not do
\* its work (no diff command, a file missing or unreadable), never the
\* coloured rendering of a diff; "Files are identical" when the files do not
\* differ; the coloured diff when they do.  The loop then awaits the next
\* command.
C22_DiffOutcomesApart ==
    /\ \A k \in DOMAIN dOut :
         IsDiff(dOut[k]) =>
            /\ k < Len(dOut)
            /\ IF \/ ~diffBinary
                  \/ \E f \in {dOut[k].File1, dOut[k].File2} :
                        f \notin DOMAIN files \/ ~files[f].readable
               THEN dOut[k + 1] = Message("Error running diff")
               ELSE IF files[dOut[k].File1].lines = files[dOut[k].File2].lines
               THEN dOut[k + 1] = Message("Files are identical")
               ELSE dOut[k + 1].kind = "colored"
    /\ (\E k \in DOMAIN dOut : IsDiff(dOut[k])) => dpc = "awaiting"

(***************************************************************************)
(* Claims about the scanner (SpecScan)                                     *)
(***************************************************************************)
\* C25: FindFilesWithExtension returns a file of the folder if and only if
\* the file is not zero-byte, its name ends with one of the configured
\* extensions, and the name without that extension is not in the ignore list,
\* whatever the order of the extensions.
C25_ScanExact ==
    scanArgs # <<>> =>
        Range(scanned) =
            { Append(scanArgs.dirPath, n) : n \in
                { name \in tree[scanArgs.dirPath[1]][scanArgs.dirPath[2]] :
                    /\ files[Append(scanArgs.dirPath, name)].size # 0
                    /\ \E e \in Range(scanArgs.extensions) :
                         /\ HasSuffix(name, e)
                         /\ SubSeq(name, 1, Len(name) - Len(e)) \notin scanArgs.ignoreFiles } }

(***************************************************************************)
(* Claims about the scorer (SpecScore)                                     *)
(***************************************************************************)
Scored == sArgs # <<>>
Norm1 == normalizeLines(files[sArgs[1]].lines)
Norm2 == normalizeLines(files[sArgs[2]].lines)

\* C2: the similarity score is symmetric: the score of (A, B) equals the
\* score of (B, A), for empty inputs and inputs with duplicate lines too.
C2_ScoreSymmetric ==
    Scored =>
        /\ sResult = CalculateSimilarity(sArgs[2], sArgs[1])
        /\ jaccardSimilarity(Norm1, Norm2) = jaccardSimilarity(Norm2, Norm1)

\* A scored pair of non-empty files with a duplicate line in one of them and
\* a score strictly between 0 and 100.
C2_Witness ==
    /\ Scored
    /\ Norm1 # <<>> /\ Norm2 # <<>>
    /\ Len(Norm2) > Cardinality(Range(Norm2))
    /\ PctGT(sResult.sim, Zero) /\ PctGT(Hundred, sResult.sim)

\* C3: two files that both normalise to zero lines score 100.0; when exactly
\* one normalises to zero lines the score is 0.0; a file of only comments and
\* blank lines counts as empty.
C3_DegenerateCases ==
    Scored =>
        /\ (Norm1 = <<>> /\ Norm2 = <<>>) => sResult = [sim |-> Hundred, err |-> FALSE]
        /\ ((Norm1 = <<>>) # (Norm2 = <<>>)) => sResult = [sim |-> Zero, err |-> FALSE]
        /\ \A f \in DOMAIN files :
              Range(files[f].lines) \subseteq {LineComment, <<" ">>}
                  => normalizeLines(files[f].lines) = <<>>

\* A comment-only file scored against a file with no lines at all: 100.0.
C3_Witness ==
    /\ Scored
    /\ LineComment \in Range(files[sArgs[1]].lines) \cup Range(files[sArgs[2]].lines)
    /\ \E f \in DOMAIN files : files[f].lines = <<>>
    /\ Norm1 = <<>> /\ Norm2 = <<>>
    /\ sResult.sim = Hundred

\* C4: for two non-empty normalised line sequences the score is
\* 100 * |set(A) \cap set(B)| / |set(A) \cup set(B)|, duplicates counting once;
\* it lies in [0, 100], is 100 for equal line sets and 0 for disjoint ones.
C4_JaccardValue ==
    (Scored /\ Norm1 # <<>> /\ Norm2 # <<>>) =>
        LET A == Range(Norm1)
            B == Range(Norm2)
        IN /\ ~sResult.err
           /\ sResult.sim = Pct(100 * Cardinality(A \cap B), Cardinality(A \cup B))
           /\ PctGE(sResult.sim, Zero) /\ PctGE(Hundred, sResult.sim)
           /\ (A = B) => sResult.sim = Hundred
           /\ (A \cap B = {}) => sResult.sim = Zero

\* The lines {a, b, c} scored against {a, x, y}: 20.
C4_Witness ==
    /\ Scored
    /\ Range(Norm1) \cup Range(Norm2) = {LineA, LineB, LineC, LineX, <<"y">>}
    /\ Range(Norm1) \cap Range(Norm2) = {LineA}
    /\ Cardinality(Range(Norm1)) = 3 /\ Cardinality(Range(Norm2)) = 3
    /\ sResult.sim = Pct(20, 1)

(***************************************************************************)
(* Claims about the normaliser (SpecNorm)                                  *)
(***************************************************************************)
\* The comment markers of normalizeLine: those that make a full-line comment
\* at the start of a line, and those of inline comments.
FullLineMarkers == {HtmlOpen, SlashSlash, SlashStar, Star, Hash}
InlineMarkers == {SlashSlash, SlashStar, Hash}

\* C23: every line normalizeLines returns is comment-free: it starts with no
\* full-line comment marker and holds no inline comment marker.
C23_CommentFree ==
    npc \in {"once", "twice"} =>
        \A k \in DOMAIN nOnce :
            /\ \A m \in FullLineMarkers : ~HasPrefix(nOnce[k], m)
            /\ \A m \in InlineMarkers : Index(nOnce[k], m) = -1

\* The raw lines that are blank or start, after their leading whitespace,
\* with a full-line comment marker.
BlankOrComment(raw) ==
    \/ TrimSpace(raw) = <<>>
    \/ \E m \in FullLineMarkers : HasPrefix(TrimSpace(raw), m)

\* The indices of the raw lines of which a line is left, and the k-th of them.
Surviving == {i \in DOMAIN nRaw : normalizeLine(nRaw[i]) # <<>>}
SurvivingAt(k) == CHOOSE i \in Surviving : Cardinality({j \in Surviving : j < i}) = k - 1

\* C24: every line normalizeLines returns is non-empty, starts and ends with
\* a character that is not whitespace, and has no whitespace in it but single
\* spaces; blank lines and comment-only lines leave no line; the lines
\* returned are those of the surviving raw lines, in the order of the input.
C24_LinesClean ==
    npc \in {"once", "twice"} =>
        /\ \A k \in DOMAIN nOnce :
             /\ nOnce[k] # <<>>
             /\ ~IsSpace(nOnce[k][1]) /\ ~IsSpace(nOnce[k][Len(nOnce[k])])
             /\ \A i \in DOMAIN nOnce[k] :
                  IsSpace(nOnce[k][i]) => nOnce[k][i] = " " /\ ~IsSpace(nOnce[k][i + 1])
        /\ \A i \in DOMAIN nRaw : BlankOrComment(nRaw[i]) => i \notin Surviving
        /\ Len(nOnce) = Cardinality(Surviving)
        /\ \A k \in DOMAIN nOnce : nOnce[k] = normalizeLine(nRaw[SurvivingAt(k)])

\* The text of four lines normalised: of the padded line with a run of
\* whitespace the single-spaced line is left, of the blank line and the
\* comment nothing, and the plain line follows.
C24_Witness ==
    /\ npc = "once"
    /\ Len(nRaw) = 4
    /\ nRaw[1] = <<" ", "a", " ", "\t", "a", " ">>
    /\ TrimSpace(nRaw[2]) = <<>> /\ nRaw[3] = LineComment
    /\ nOnce = << <<"a", " ", "a">>, <<"a", "*">> >>

\* C5: normalisation is idempotent: normalizeLines applied to its own output
\* returns that output unchanged.
C5_Idempotent == npc = "twice" => nTwice = nOnce

\* C27: once CompareAssignments has returned, no step changes the matrix
\* (its students' rows, its cells and its assignments), neither the summary
\* step, for any threshold and filters, nor the listing in either grouping,
\* nor a Diff Explorer pass for a line that is q, p, a case number, a case
\* with an assignment number, or invalid, nor the end of stdin. Once the
\* summary is built, no step changes the ordered list of the pairs with
\* their flagged assignments and file comparisons.
C27_MatrixReadOnly ==
    [][ /\ Returned => result' = result
        /\ Reported => pairs' = pairs ]_vars

\* The summary was built with a threshold and the student filter, and two
\* commands were read, the last one ran the diffs of a case of a matrix with
\* three students.
C27_Witness ==
    /\ Reported
    /\ sumArgs.threshold # Zero
    /\ sumArgs.filterStudent = "bob"
    /\ Len(pairs) = 2
    /\ Cardinality(DOMAIN result.Results) = 3
    /\ dReads = 2
    /\ dInput.line = <<"1", ".", "2">>
    /\ Len(DiffsRun) > 0
    /\ dpc = "awaiting"

\* The lines of the last listing that carry a case reference N.M: the line of
\* a case in the grouping by assignment, the line of a flagged assignment in
\* the grouping by student pair.
LabelLines ==
    {e \in DOMAIN dOut :
       \/ dOut[e].kind = "detail"
       \/ dOut[e].kind = "case" /\ dOut[e].assignmentNum > 0}

\* The two students the listing shows for the line e of LabelLines: on the
\* line itself, or on the line of the case it stands under.
StudentsShownAt(e) ==
    LET c == IF dOut[e].kind = "case" THEN e
             ELSE CHOOSE k \in 1..e : /\ dOut[k].kind = "case"
                                      /\ \A j \in (k + 1)..e : dOut[j].kind # "case"
    IN <<dOut[c].caseNum, dOut[c].File1[1], dOut[c].File2[1]>>

\* The file names and similarities on the lines that follow line e up to the
\* next line that is not one of a file comparison.
RECURSIVE FilesShownAfter(_)
FilesShownAfter(e) ==
    IF e + 1 > Len(dOut) \/ dOut[e + 1].kind # "file" THEN <<>>
    ELSE <<<<dOut[e + 1].File1, dOut[e + 1].File2, dOut[e + 1].Similarity>>>>
         \o FilesShownAfter(e + 1)

\* The line N.M as the listing prints it.
LabelText(N, M) == <<Numerals[N], ".", Numerals[M]>>

\* C30: in every listing, by student pair or by assignment, printed at the
\* end of the summary or for the print command, a line with the case
\* reference N.M shows the students of pairs[N], the name of the M-th flagged
\* assignment of pairs[N] and, below it, the file comparisons of that
\* assignment; every flagged assignment of every pair has its reference on
\* one line; and the line N.M entered in diff mode runs the diffs of the
\* M-th flagged assignment of pairs[N] and no other.
C30_CaseReferencesStable ==
    /\ ListingShown =>
          /\ \A e \in LabelLines :
                LET N == dOut[e].caseNum
                    M == dOut[e].assignmentNum
                IN /\ N \in DOMAIN pairs
                   /\ M \in DOMAIN pairs[N].FlaggedAssignments
                   /\ dOut[e].name = pairs[N].FlaggedAssignments[M].Name
                   /\ StudentsShownAt(e) = <<N, pairs[N].Student1, pairs[N].Student2>>
                   /\ FilesShownAfter(e) =
                        [i \in DOMAIN pairs[N].FlaggedAssignments[M].FileComparisons |->
                           <<pairs[N].FlaggedAssignments[M].FileComparisons[i].File1[3],
                             pairs[N].FlaggedAssignments[M].FileComparisons[i].File2[3],
                             pairs[N].FlaggedAssignments[M].FileComparisons[i].Similarity>>]
          /\ \A N \in DOMAIN pairs : \A M \in DOMAIN pairs[N].FlaggedAssignments :
                Cardinality({e \in LabelLines : /\ dOut[e].caseNum = N
                                                 /\ dOut[e].assignmentNum = M}) = 1
    /\ CommandRead =>
          \A N \in DOMAIN pairs : \A M \in DOMAIN pairs[N].FlaggedAssignments :
              LastLine = LabelText(N, M) =>
                  /\ DiffsRun = DiffsOfAssignment(N, M)
                  /\ \A e \in DOMAIN dOut :
                        dOut[e].kind \in {"header", "diff", "colored"} =>
                            /\ dOut[e].caseNum = N
                            /\ dOut[e].assignmentNum = M
                            /\ dOut[e].name \in {pairs[N].FlaggedAssignments[M].Name,
                                                  "diff: No such file or directory",
                                                  "@@ hunks @@"}

\* The print command has listed three pairs by assignment, and under an
\* assignment the reference of the third pair stands above that of the
\* second.
C30_Witness ==
    /\ CommandRead
    /\ PrintLine(LastLine)
    /\ orderBy = orderByAssignment
    /\ Len(pairs) = 3
    /\ \E e, f \in LabelLines :
         /\ e < f
         /\ dOut[e].name = dOut[f].name
         /\ dOut[e].caseNum = 3
         /\ dOut[f].caseNum = 2

====
